---- MODULE Spec2Model ----
(***************************************************************************)
(* Model of bluesky_queueserver.manager.plan_queue_ops.PlanQueueOperations *)
(* (the plan queue, the running-plan slot, the plan history and the        *)
(* in-memory UID dictionary, all kept in Redis behind one asyncio.Lock).   *)
(*                                                                         *)
(* A plan is a Python dict; the model keeps "name" (some key the caller   *)
(* put in) and the two keys the class reads or writes, "plan_uid" and      *)
(* "exit_status"; a key that is missing holds Absent.  Redis stores json.dumps(plan); a Redis reply of nil is         *)
(* RedisNil.  Callers are coroutines of one event loop: a step of the      *)
(* model runs a coroutine from one Redis command that changes the store    *)
(* to the next one, together with the synchronous code that follows it.    *)
(***************************************************************************)
EXTENDS Integers, Sequences, FiniteSets, TLC

\* ------------------------------------------------------------------ bounds
\* Longest plan queue the callers build up (add is not called beyond it).
MaxQueue == 4
\* Longest plan history the callers build up before clearing it.
MaxHistory == 2
\* Number of asyncio.Lock objects start() may create in one run.
MaxLocks == 2
\* Longest plan history at which the callers of the specifications of add,
\* pop and move still stop a plan.
MaxStops == 1

\* ------------------------------------------------------------------ values
\* Plan UIDs the callers use.  "" is the one falsy UID string of Python.
UIDs == {"", "a", "b", "c"}
\* Plan UIDs uuid.uuid4() comes up with.
GenUIDs == {"a", "b"}
\* Exit statuses passed to set_processed_plan_as_completed/_stopped.
Statuses == {"stopped"}
\* Coroutines calling the public methods.
Callers == {"c1", "c2", "c3"}
\* The two of them that call in the specifications of the whole manager.
SpecCallers == {"c1", "c2"}

\* A dict key that is missing.
Absent == "<absent>"
\* Python None given for a UID parameter.
NoneUid == "<None>"
\* No caller (an asyncio.Lock nobody holds).
NoCaller == "<nobody>"

Plan(uid, status) == [name |-> "count", plan_uid |-> uid, exit_status |-> status]
\* The empty dict {}.
EmptyDict == [name |-> Absent, plan_uid |-> Absent, exit_status |-> Absent]
\* Python truth value of a dict.
Truthy(plan) == plan # EmptyDict
HasKey_plan_uid(plan) == plan.plan_uid # Absent

\* The `pos` parameter: None, a string or an int.
PosNone == [kind |-> "none", i |-> 0, s |-> ""]
PosStr(s) == [kind |-> "str", i |-> 0, s |-> s]
PosInt(i) == [kind |-> "int", i |-> i, s |-> ""]
IsNonePos(pos) == pos.kind = "none"
IsInt(pos) == pos.kind = "int"
IsStr(pos, s) == pos.kind = "str" /\ pos.s = s

\* json.dumps / json.loads of a plan: the text of a JSON object.  A text has
\* the object it stands for and the way it is written: "dumps" as
\* json.dumps writes it, "other" for a text of the same object written
\* otherwise (other separators or escapes), which json.loads reads alike
\* and which is a different string to Redis.
json_dumps(plan) == [nil |-> FALSE, json |-> plan, fmt |-> "dumps"]
json_loads(text) == text.json
\* A text that was not written by json.dumps.
json_other(plan) == [nil |-> FALSE, json |-> plan, fmt |-> "other"]
\* The nil reply of Redis (missing key, empty list, index out of range).
RedisNil == [nil |-> TRUE, json |-> EmptyDict, fmt |-> "dumps"]

\* Exceptions: the Python class and the raise statement it comes from.
Exc(cls, at) == [exc |-> cls, at |-> at]
NoExc == Exc("none", "none")
Raised(r) == r.err # NoExc

\* ------------------------------------------------------- Redis commands
\* Each takes the list as stored and gives the list after the command and
\* the reply.
llen(list) == Len(list)

\* A faulty variant that pushes at the tail (RPUSH for LPUSH).
lpush_at_tail(list, text) == [list |-> Append(list, text), reply |-> Len(list) + 1]

lpush(list, text) == [list |-> <<text>> \o list, reply |-> Len(list) + 1]

\* A faulty variant that pushes at the head (LPUSH for RPUSH).
rpush_at_head(list, text) == [list |-> <<text>> \o list, reply |-> Len(list) + 1]

rpush(list, text) == [list |-> Append(list, text), reply |-> Len(list) + 1]

\* A faulty variant that reads the head and leaves it in the list (LINDEX 0
\* for LPOP).
lpop_keeps(list) ==
    IF list = <<>> THEN [list |-> list, reply |-> RedisNil]
    ELSE [list |-> list, reply |-> Head(list)]

\* A faulty variant that pops at the tail (RPOP for LPOP).
lpop_at_tail(list) ==
    IF list = <<>> THEN [list |-> list, reply |-> RedisNil]
    ELSE [list |-> SubSeq(list, 1, Len(list) - 1), reply |-> list[Len(list)]]

lpop(list) ==
    IF list = <<>> THEN [list |-> list, reply |-> RedisNil]
    ELSE [list |-> Tail(list), reply |-> Head(list)]

rpop(list) ==
    IF list = <<>> THEN [list |-> list, reply |-> RedisNil]
    ELSE [list |-> SubSeq(list, 1, Len(list) - 1), reply |-> list[Len(list)]]

\* A faulty variant that takes an index beyond either end for the element
\* at that end.
lindex_clamps(list, index) ==
    IF list = <<>>
    THEN [nil |-> TRUE, fmt |-> "dumps",
          json |-> [name |-> "<absent>", plan_uid |-> "<absent>", exit_status |-> "<absent>"]]
    ELSE IF index >= 0
    THEN IF index < Len(list) THEN list[index + 1] ELSE list[Len(list)]
    ELSE IF -index <= Len(list) THEN list[Len(list) + index + 1] ELSE list[1]

\* LINDEX: zero-based, negative indices count from the tail.
lindex(list, index) ==
    IF index >= 0
    THEN IF index < Len(list) THEN list[index + 1] ELSE RedisNil
    ELSE IF -index <= Len(list) THEN list[Len(list) + index + 1] ELSE RedisNil

\* A faulty variant that replies the count and removes nothing.
lrem_keeps(list, text) ==
    [list |-> list, reply |-> Len(list) - Len(SelectSeq(list, LAMBDA x : x # text))]

\* LREM key 0 value: removes every element equal to value, replies the count.
lrem(list, text) ==
    LET kept == SelectSeq(list, LAMBDA x : x # text)
    IN  [list |-> kept, reply |-> Len(list) - Len(kept)]

\* Index (1-based) of the first element equal to text, 0 if there is none.
FirstMatch(list, text) ==
    IF \E k \in 1..Len(list) : list[k] = text
    THEN CHOOSE k \in 1..Len(list) :
            list[k] = text /\ \A j \in 1..(k - 1) : list[j] # text
    ELSE 0

\* A faulty variant that never finds the pivot.
linsert_lost(list, pivot, text, before) ==
    IF list = <<>> THEN [list |-> list, reply |-> 0] ELSE [list |-> list, reply |-> -1]

\* A faulty variant that inserts after the pivot, BEFORE or AFTER.
linsert_after(list, pivot, text, before) ==
    LET found == {k \in 1..Len(list) : list[k] = pivot}
        k == IF found = {} THEN 0 ELSE CHOOSE i \in found : \A j \in found : i <= j
    IN  IF list = <<>> THEN [list |-> list, reply |-> 0]
        ELSE IF k = 0 THEN [list |-> list, reply |-> -1]
        ELSE [list |-> SubSeq(list, 1, k) \o <<text>> \o SubSeq(list, k + 1, Len(list)),
              reply |-> Len(list) + 1]

\* LINSERT key BEFORE|AFTER pivot value: relative to the first pivot; replies
\* the new length, -1 when the pivot is not found, 0 when the list is empty.
linsert(list, pivot, text, before) ==
    LET k == FirstMatch(list, pivot)
        at == IF before THEN k - 1 ELSE k
    IN  IF list = <<>> THEN [list |-> list, reply |-> 0]
        ELSE IF k = 0 THEN [list |-> list, reply |-> -1]
        ELSE [list |-> SubSeq(list, 1, at) \o <<text>> \o SubSeq(list, at + 1, Len(list)),
              reply |-> Len(list) + 1]

\* --------------------------------------------------- the manager's data
\* m is the data the methods work on: the three Redis keys and _uid_dict,
\*   m.queue    list "plan_queue"    (front first)
\*   m.running  key "running_plan"   (RedisNil until first set)
\*   m.history  list "plan_history"  (oldest first)
\*   m.uid_dict self._uid_dict       (function UID -> plan)
Manager(q, r, h, d) == [queue |-> q, running |-> r, history |-> h, uid_dict |-> d]

\* What a helper gives back: the data after it, the exception it raised (or
\* NoExc), and its return values.
Result(m, err, plan, qsize) == [m |-> m, err |-> err, plan |-> plan, qsize |-> qsize]

EmptyUidDict == [u \in {} |-> EmptyDict]

\* ------------------------------------------------- operations with UID set
is_uid_in_dict(d, uid) == uid \in DOMAIN d

\* _uid_dict_add: the dict after it; the caller checks is_uid_in_dict first.
uid_dict_put(d, plan) ==
    [u \in DOMAIN d \cup {plan.plan_uid} |-> IF u = plan.plan_uid THEN plan ELSE d[u]]

uid_dict_add(d, plan) ==
    IF is_uid_in_dict(d, plan.plan_uid)
    THEN [d |-> d, err |-> Exc("RuntimeError", "uid_dict_add")]
    ELSE [d |-> uid_dict_put(d, plan), err |-> NoExc]

\* A faulty variant that empties the dictionary.
uid_dict_remove_all(d, uid) ==
    IF ~is_uid_in_dict(d, uid)
    THEN [d |-> d, err |-> Exc("RuntimeError", "uid_dict_remove")]
    ELSE [d |-> [u \in {} |-> d[u]], err |-> NoExc]

uid_dict_remove(d, uid) ==
    IF ~is_uid_in_dict(d, uid)
    THEN [d |-> d, err |-> Exc("RuntimeError", "uid_dict_remove")]
    ELSE [d |-> [u \in DOMAIN d \ {uid} |-> d[u]], err |-> NoExc]

\* A faulty variant that drops the UID (as the comment in
\* _set_processed_plan_as_stopped has it) where the code updates the entry.
uid_dict_update_removes(d, plan) ==
    IF ~is_uid_in_dict(d, plan.plan_uid)
    THEN [d |-> d, err |-> Exc("RuntimeError", "uid_dict_update")]
    ELSE [d |-> [u \in DOMAIN d \ {plan.plan_uid} |-> d[u]], err |-> NoExc]

\* A faulty variant that leaves the entry as it was.
uid_dict_update_keeps(d, plan) ==
    IF ~is_uid_in_dict(d, plan.plan_uid)
    THEN [d |-> d, err |-> Exc("RuntimeError", "uid_dict_update")]
    ELSE [d |-> d, err |-> NoExc]

uid_dict_update(d, plan) ==
    IF ~is_uid_in_dict(d, plan.plan_uid)
    THEN [d |-> d, err |-> Exc("RuntimeError", "uid_dict_update")]
    ELSE [d |-> uid_dict_put(d, plan), err |-> NoExc]

uid_dict_get_plan(d, uid) == d[uid]

\* ---------------------------------------------------- running plan, queue
get_running_plan_info_(m) ==
    IF m.running.nil THEN EmptyDict ELSE json_loads(m.running)

\* A faulty variant that always finds a plan running.
is_plan_running_always(m) == TRUE

is_plan_running_(m) == Truthy(get_running_plan_info_(m))

\* A faulty variant that writes nothing.
set_running_plan_info_lost(m, plan) == m

set_running_plan_info(m, plan) == [m EXCEPT !.running = json_dumps(plan)]

\* A faulty variant that leaves the running plan as it is.
clear_running_plan_info_keeps(m) == m

clear_running_plan_info(m) == set_running_plan_info(m, EmptyDict)

get_plan_queue_size_(m) == llen(m.queue)

get_plan_queue_(m) == [k \in 1..Len(m.queue) |-> json_loads(m.queue[k])]

\* A faulty variant that does not look the UID up.
verify_plan_no_lookup(m, plan) ==
    IF ~HasKey_plan_uid(plan) THEN Exc("ValueError", "verify_plan_no_uid") ELSE NoExc

\* _verify_plan: the plan has a UID and the UID is not in _uid_dict.
verify_plan(m, plan) ==
    IF ~HasKey_plan_uid(plan) THEN Exc("ValueError", "verify_plan_no_uid")
    ELSE IF is_uid_in_dict(m.uid_dict, plan.plan_uid)
         THEN Exc("RuntimeError", "verify_plan_duplicate")
         ELSE NoExc

\* set_new_plan_uuid: new_uid is what uuid.uuid4() returns.
set_new_plan_uuid(plan, new_uid) == [plan EXCEPT !.plan_uid = new_uid]

\* _get_index_by_uid: zero-based index of the first plan with the UID, -1
\* standing for the IndexError.
get_index_by_uid(m, uid) ==
    LET queue == get_plan_queue_(m)
    IN  IF \E k \in 1..Len(queue) : queue[k].plan_uid = uid
        THEN (CHOOSE k \in 1..Len(queue) :
                 queue[k].plan_uid = uid /\ \A j \in 1..(k - 1) : queue[j].plan_uid # uid) - 1
        ELSE -1

\* A faulty variant that takes no UID for the one of the running plan.
is_running_uid_never(m, uid) == FALSE

\* `running_plan and (uid == running_plan["plan_uid"])`: the UID is the one
\* of the running plan.
is_running_uid(m, uid) ==
    Truthy(get_running_plan_info_(m)) /\ uid = get_running_plan_info_(m).plan_uid

\* A faulty variant that counts positions from one.
pos_index_from_one(p) ==
    IF IsStr(p, "back") THEN -1 ELSE IF IsStr(p, "front") THEN 0 ELSE p.i - 1

\* The list index _get_plan reads for `pos`.
pos_index(p) ==
    IF IsStr(p, "back") THEN -1 ELSE IF IsStr(p, "front") THEN 0 ELSE p.i

\* A faulty variant that goes by the UID when both pos and uid are given.
get_plan_uid_wins(m, pos, uid) ==
    IF uid # NoneUid
    THEN IF ~is_uid_in_dict(m.uid_dict, uid)
         THEN Result(m, Exc("IndexError", "get_plan_uid_not_in_queue"), EmptyDict, 0)
         ELSE IF is_running_uid(m, uid)
         THEN Result(m, Exc("IndexError", "get_plan_uid_running"), EmptyDict, 0)
         ELSE Result(m, NoExc, uid_dict_get_plan(m.uid_dict, uid), 0)
    ELSE LET p == IF IsNonePos(pos) THEN PosStr("back") ELSE pos
         IN  IF ~(IsStr(p, "back") \/ IsStr(p, "front") \/ IsInt(p))
             THEN Result(m, Exc("TypeError", "get_plan_pos_type"), EmptyDict, 0)
             ELSE LET plan_json == lindex(m.queue, pos_index(p))
                  IN  IF plan_json.nil
                      THEN Result(m, Exc("IndexError", "get_plan_out_of_range"), EmptyDict, 0)
                      ELSE Result(m, NoExc, json_loads(plan_json), 0)

\* _get_plan(pos, uid).
get_plan_(m, pos, uid) ==
    IF ~IsNonePos(pos) /\ uid # NoneUid
    THEN Result(m, Exc("ValueError", "get_plan_ambiguous"), EmptyDict, 0)
    ELSE IF uid # NoneUid
    THEN IF ~is_uid_in_dict(m.uid_dict, uid)
         THEN Result(m, Exc("IndexError", "get_plan_uid_not_in_queue"), EmptyDict, 0)
         ELSE IF is_running_uid(m, uid)
         THEN Result(m, Exc("IndexError", "get_plan_uid_running"), EmptyDict, 0)
         ELSE Result(m, NoExc, uid_dict_get_plan(m.uid_dict, uid), 0)
    ELSE LET p == IF IsNonePos(pos) THEN PosStr("back") ELSE pos
         IN  IF ~(IsStr(p, "back") \/ IsStr(p, "front") \/ IsInt(p))
             THEN Result(m, Exc("TypeError", "get_plan_pos_type"), EmptyDict, 0)
             ELSE LET plan_json == lindex(m.queue, pos_index(p))
                  IN  IF plan_json.nil
                      THEN Result(m, Exc("IndexError", "get_plan_out_of_range"), EmptyDict, 0)
                      ELSE Result(m, NoExc, json_loads(plan_json), 0)

\* _remove_plan(plan, single): LREM of the plan's JSON text; the plans are
\* removed also when the exception is raised.
remove_plan(m, plan, single) ==
    LET c == lrem(m.queue, json_dumps(plan))
        m1 == [m EXCEPT !.queue = c.list]
    IN  IF c.reply # 1 /\ single
        THEN Result(m1, Exc("RuntimeError", "remove_plan_count"), plan, 0)
        ELSE Result(m1, NoExc, plan, 0)

\* A faulty variant that leaves the UID in _uid_dict.
pop_finish_keeps_uid(m, plan) == Result(m, NoExc, plan, get_plan_queue_size_(m))

\* The end of _pop_plan_from_queue, lines 475-480, after `plan` was taken out
\* of the list.
pop_finish(m, plan) ==
    IF ~Truthy(plan) THEN Result(m, NoExc, plan, get_plan_queue_size_(m))
    ELSE IF ~HasKey_plan_uid(plan) THEN Result(m, Exc("KeyError", "plan_uid"), plan, 0)
    ELSE LET r == uid_dict_remove(m.uid_dict, plan.plan_uid)
             m1 == [m EXCEPT !.uid_dict = r.d]
         IN  IF r.err # NoExc THEN Result(m, r.err, plan, 0)
             ELSE Result(m1, NoExc, plan, get_plan_queue_size_(m1))

\* _pop_plan_from_queue(pos, uid) up to and including the Redis command that
\* takes the plan out of the list (lines 445-473).
pop_remove(m, pos, uid) ==
    IF ~IsNonePos(pos) /\ uid # NoneUid
    THEN Result(m, Exc("ValueError", "pop_ambiguous"), EmptyDict, 0)
    ELSE LET p == IF IsNonePos(pos) THEN PosStr("back") ELSE pos
         IN  IF uid # NoneUid
             THEN IF ~is_uid_in_dict(m.uid_dict, uid)
                  THEN Result(m, Exc("IndexError", "pop_uid_not_in_queue"), EmptyDict, 0)
                  ELSE IF is_running_uid(m, uid)
                  THEN Result(m, Exc("IndexError", "pop_uid_running"), EmptyDict, 0)
                  ELSE remove_plan(m, uid_dict_get_plan(m.uid_dict, uid), TRUE)
             ELSE IF IsStr(p, "back")
             THEN LET c == rpop(m.queue)
                  IN  IF c.reply.nil
                      THEN Result(m, Exc("IndexError", "pop_queue_empty"), EmptyDict, 0)
                      ELSE Result([m EXCEPT !.queue = c.list], NoExc, json_loads(c.reply), 0)
             ELSE IF IsStr(p, "front")
             THEN LET c == lpop(m.queue)
                  IN  IF c.reply.nil
                      THEN Result(m, Exc("IndexError", "pop_queue_empty"), EmptyDict, 0)
                      ELSE Result([m EXCEPT !.queue = c.list], NoExc, json_loads(c.reply), 0)
             ELSE IF IsInt(p)
             THEN LET g == get_plan_(m, p, NoneUid)
                  IN  IF Raised(g) \/ ~Truthy(g.plan) THEN g
                      ELSE remove_plan(m, g.plan, TRUE)
             ELSE Result(m, Exc("ValueError", "pop_pos_value"), EmptyDict, 0)

\* _pop_plan_from_queue(pos, uid), the whole of it.
pop_plan_from_queue_(m, pos, uid) ==
    LET r == pop_remove(m, pos, uid)
    IN  IF Raised(r) THEN r ELSE pop_finish(r.m, r.plan)

\* A faulty variant that does not enter the UID in _uid_dict.
add_finish_no_uid_dict(m, plan, qsize) == Result(m, NoExc, plan, qsize)

\* The end of _add_plan_to_queue, lines 565-566, after the Redis command
\* replied qsize.
add_finish(m, plan, qsize) ==
    LET r == uid_dict_add(m.uid_dict, plan)
    IN  IF r.err # NoExc THEN Result(m, r.err, plan, qsize)
        ELSE Result([m EXCEPT !.uid_dict = r.d], NoExc, plan, qsize)

\* _add_plan_to_queue(plan, pos, before_uid, after_uid) up to and including
\* the Redis command that puts the plan in the list (lines 514-563).
add_insert(m, plan0, pos, before_uid, after_uid, new_uid) ==
    IF ~IsNonePos(pos) /\ (before_uid # NoneUid \/ after_uid # NoneUid)
    THEN Result(m, Exc("ValueError", "add_ambiguous_pos_uid"), plan0, 0)
    ELSE IF before_uid # NoneUid /\ after_uid # NoneUid
    THEN Result(m, Exc("ValueError", "add_ambiguous_before_after"), plan0, 0)
    ELSE
    LET p == IF IsNonePos(pos) THEN PosStr("back") ELSE pos
        plan == IF ~HasKey_plan_uid(plan0) THEN set_new_plan_uuid(plan0, new_uid) ELSE plan0
        v == IF ~HasKey_plan_uid(plan0) THEN NoExc ELSE verify_plan(m, plan0)
        qsize0 == get_plan_queue_size_(m)
        Put(c) == Result([m EXCEPT !.queue = c.list], NoExc, plan, c.reply)
    IN  IF v # NoExc THEN Result(m, v, plan, 0)
        ELSE IF before_uid # NoneUid \/ after_uid # NoneUid
        THEN LET uid == IF before_uid # NoneUid THEN before_uid ELSE after_uid
                 before == uid = before_uid
             IN  IF ~is_uid_in_dict(m.uid_dict, uid)
                 THEN Result(m, Exc("IndexError", "add_uid_not_in_queue"), plan, 0)
                 ELSE IF is_running_uid(m, uid)
                 THEN IF before
                      THEN Result(m, Exc("IndexError", "add_before_running"), plan, 0)
                      ELSE Put(lpush(m.queue, json_dumps(plan)))
                 ELSE Put(linsert(m.queue, json_dumps(uid_dict_get_plan(m.uid_dict, uid)),
                                  json_dumps(plan), before))
        ELSE IF IsStr(p, "back") \/ (IsInt(p) /\ p.i >= qsize0)
        THEN Put(rpush(m.queue, json_dumps(plan)))
        ELSE IF IsStr(p, "front") \/ (IsInt(p) /\ (p.i = 0 \/ p.i <= -qsize0))
        THEN Put(lpush(m.queue, json_dumps(plan)))
        ELSE IF IsInt(p)
        THEN LET g == get_plan_(m, p, NoneUid)
             IN  IF Raised(g) THEN Result(m, g.err, plan, 0)
                 ELSE IF Truthy(g.plan)
                 THEN Put(linsert(m.queue, json_dumps(g.plan), json_dumps(plan), TRUE))
                 ELSE Result(m, Exc("RuntimeError", "add_no_plan_at_pos"), plan, 0)
        ELSE Result(m, Exc("ValueError", "add_pos_value"), plan, 0)

\* _add_plan_to_queue(plan, pos, before_uid, after_uid), the whole of it.
add_plan_to_queue_(m, plan, pos, before_uid, after_uid, new_uid) ==
    LET r == add_insert(m, plan, pos, before_uid, after_uid, new_uid)
    IN  IF Raised(r) THEN r ELSE add_finish(r.m, r.plan, r.qsize)

\* Python truth value of a UID parameter (None and "" are false).
TruthyUid(uid) == uid # NoneUid /\ uid # ""

\* What _move_plan resolves before it changes anything (lines 615-680).
MoveTarget(err, uid_source, uid_dest, before, plan_dest) ==
    [err |-> err, uid_source |-> uid_source, uid_dest |-> uid_dest,
     before |-> before, plan_dest |-> plan_dest]
MoveFails(err) == MoveTarget(err, NoneUid, NoneUid, TRUE, EmptyDict)

move_resolve(m, pos, uid, pos_dest, before_uid, after_uid) ==
    IF IsNonePos(pos) /\ uid = NoneUid
    THEN MoveFails(Exc("ValueError", "move_no_source"))
    ELSE IF IsNonePos(pos_dest) /\ before_uid = NoneUid /\ after_uid = NoneUid
    THEN MoveFails(Exc("ValueError", "move_no_destination"))
    ELSE IF ~IsNonePos(pos) /\ uid # NoneUid
    THEN MoveFails(Exc("ValueError", "move_ambiguous_source"))
    ELSE IF ~IsNonePos(pos_dest) /\ (before_uid # NoneUid \/ after_uid # NoneUid)
    THEN MoveFails(Exc("ValueError", "move_ambiguous_destination"))
    ELSE IF before_uid # NoneUid /\ after_uid # NoneUid
    THEN MoveFails(Exc("ValueError", "move_ambiguous_before_after"))
    ELSE
    LET queue_size == get_plan_queue_size_(m)
        src_by_index == uid = NoneUid
        src == IF uid # NoneUid THEN get_plan_(m, PosNone, uid) ELSE get_plan_(m, pos, NoneUid)
    IN  IF Raised(src)
        THEN MoveFails(Exc("IndexError", "move_source_not_found"))
        ELSE IF ~HasKey_plan_uid(src.plan)
        THEN MoveFails(Exc("KeyError", "plan_uid"))
        ELSE
        LET uid_source == src.plan.plan_uid
            by_uid == before_uid # NoneUid \/ after_uid # NoneUid
            uid_dest0 == IF TruthyUid(before_uid) THEN before_uid ELSE after_uid
            dst == IF by_uid THEN get_plan_(m, PosNone, uid_dest0)
                   ELSE get_plan_(m, pos_dest, NoneUid)
            found == IF src_by_index THEN 0 ELSE get_index_by_uid(m, uid)
            src_index == IF ~src_by_index THEN found
                         ELSE IF IsStr(pos, "front") THEN 0
                         ELSE IF IsStr(pos, "back") THEN queue_size - 1
                         ELSE pos.i
            before == IF by_uid THEN uid_dest0 = before_uid
                      ELSE IF IsStr(pos_dest, "front") THEN TRUE
                      ELSE IF IsStr(pos_dest, "back") THEN FALSE
                      ELSE src_index > pos_dest.i
        IN  IF Raised(dst) \/ (~by_uid /\ found = -1)
            THEN MoveFails(Exc("IndexError", "move_destination_not_found"))
            ELSE IF ~HasKey_plan_uid(dst.plan)
            THEN MoveFails(Exc("KeyError", "plan_uid"))
            ELSE MoveTarget(NoExc, uid_source, dst.plan.plan_uid, before, dst.plan)

\* _move_plan as a whole (lines 611-692): nothing is changed when source and
\* destination are the same plan; otherwise the source is popped by its UID
\* and added again before or after the destination.
move_plan_(m, pos, uid, pos_dest, before_uid, after_uid) ==
    LET t == move_resolve(m, pos, uid, pos_dest, before_uid, after_uid)
        r == pop_plan_from_queue_(m, PosNone, t.uid_source)
        a == add_plan_to_queue_(r.m, r.plan, PosNone,
                                IF t.before THEN t.uid_dest ELSE NoneUid,
                                IF t.before THEN NoneUid ELSE t.uid_dest, NoneUid)
    IN  IF t.err # NoExc THEN Result(m, t.err, EmptyDict, 0)
        ELSE IF t.uid_source = t.uid_dest
        THEN Result(m, NoExc, t.plan_dest, get_plan_queue_size_(m))
        ELSE IF Raised(r) THEN r
        ELSE a

\* ------------------------------------------------------------- the state
VARIABLES
    plan_queue,     \* Redis list "plan_queue": JSON texts, front first
    running_plan,   \* Redis key "running_plan": a JSON text or RedisNil
    plan_history,   \* Redis list "plan_history": JSON texts, oldest first
    uid_dict,       \* self._uid_dict
    r_pool,         \* self._r_pool is set
    lock_id,        \* self._lock: 0 for None, else the number of the Lock object
    lock_holder,    \* for each Lock object, the caller that holds it
    lock_waiters,   \* for each Lock object, the callers waiting for it, in order
    pc,             \* where each caller is
    call,           \* the method a caller is in and its arguments
    loc,            \* the local variables a caller keeps across Redis commands
    ret             \* what the method gives back to the caller

data == <<plan_queue, running_plan, plan_history, uid_dict>>
locks == <<lock_id, lock_holder, lock_waiters>>

\* The state of the worker process (RunEngineWorker), shared by its threads.
VARIABLES
    env_state,              \* self._env_state
    running_plan_info,      \* self._running_plan_info
    running_plan_completed, \* self._running_plan_completed
    execution_queue,        \* self._execution_queue: (parameters, option) pairs
    RE_state,               \* self._RE._state
    pause_requested,        \* a pause was requested from the Run Engine
    re_report,              \* self._re_report
    background_tasks_num,   \* self._background_tasks_num
    comm,                   \* the communication thread: the handler it is in
    main,                   \* the main thread: where it is in its loop
    tasks,                  \* the task threads
    reply                   \* the last message a handler sent back

wvars == <<env_state, running_plan_info, running_plan_completed, execution_queue,
           RE_state, pause_requested, re_report, background_tasks_num,
           comm, main, tasks, reply>>
qvars == <<plan_queue, running_plan, plan_history, uid_dict, r_pool,
           lock_id, lock_holder, lock_waiters, pc, call, loc, ret>>
vars == <<qvars, wvars>>

\* --------------------------------------------- the worker: values, start
\* EState, the values the model uses (worker.py, 45-51).
EState == {"idle", "executing_plan", "executing_task"}
\* ExecOption (worker.py, 62-68).
ExecOption == {"new", "resume", "stop", "abort", "halt", "task"}
\* The options of command_continue_plan that _continue_plan takes, and one
\* it does not.
available_options == {"resume", "abort", "stop", "halt"}
ContinueOptions == available_options \cup {"suspend"}
\* _plan_exit_status_expected.
plan_exit_status_expected(exec_option) ==
    CASE exec_option = "new" -> "completed"
      [] exec_option = "resume" -> "completed"
      [] exec_option = "stop" -> "stopped"
      [] exec_option = "abort" -> "aborted"
      [] exec_option = "halt" -> "halted"

\* A dictionary is the set of its keys; a value that may be None is a
\* sequence, empty for None and holding the value otherwise.
NoneValue == <<>>
Some(v) == <<v>>
\* bool(x) of a dictionary or None: `if x`.
IsSet(x) == x # NoneValue /\ x[1] # {}
\* The plan_info dictionaries a run_plan command carries.
PlanInfos == {{"name", "item_uid"}, {"item_uid"}, {}}

\* The bound on the task threads alive at once.
MaxTasks == 2
TaskIds == 1 .. MaxTasks
NoTask == [pc |-> "none", run_in_background |-> FALSE, num |-> 0]

CommIdle == [pc |-> "idle", plan_info |-> {}, option |-> "", run_in_background |-> FALSE,
             run_in_separate_thread |-> FALSE, num |-> 0]
MainPolling == [pc |-> "poll", exec_option |-> ""]
NoReply == [cmd |-> "", status |-> "", background_tasks_num |-> 0]

\* The worker after its start-up code: the queue exists and is empty, the
\* environment is idle, the Run Engine is idle, no thread runs a task.
WorkerStarted ==
    /\ env_state = "idle"
    /\ running_plan_info = NoneValue
    /\ running_plan_completed = FALSE
    /\ execution_queue = <<>>
    /\ RE_state = "idle"
    /\ pause_requested = FALSE
    /\ re_report = NoneValue
    /\ background_tasks_num = 0
    /\ comm = CommIdle
    /\ main = MainPolling
    /\ tasks = [t \in TaskIds |-> NoTask]
    /\ reply = NoReply

\* The data as the helpers take it.
M == Manager(plan_queue, running_plan, plan_history, uid_dict)

SetManager(m) ==
    /\ plan_queue' = m.queue
    /\ running_plan' = m.running
    /\ plan_history' = m.history
    /\ uid_dict' = m.uid_dict

\* A call: the public method and its keyword arguments.
Call(op, plan, pos, uid, pos_dest, before_uid, after_uid, exit_status) ==
    [op |-> op, plan |-> plan, pos |-> pos, uid |-> uid, pos_dest |-> pos_dest,
     before_uid |-> before_uid, after_uid |-> after_uid, exit_status |-> exit_status]
NoCall == Call("none", EmptyDict, PosNone, NoneUid, PosNone, NoneUid, NoneUid, Absent)
Call0(op) == [NoCall EXCEPT !.op = op]

\* A return: the exception raised (or NoExc) and the values returned: a plan,
\* a size, a list of plans or a boolean, as the method has them.
Ret(err, plan, qsize, list, flag) ==
    [err |-> err, plan |-> plan, qsize |-> qsize, list |-> list, flag |-> flag]
NoRet == Ret(NoExc, EmptyDict, 0, <<>>, FALSE)
RetOf(r) == Ret(r.err, r.plan, r.qsize, <<>>, FALSE)

\* Local variables: the plan in hand, and for move_plan where it goes.
Loc(plan, uid_dest, before, qsize) ==
    [plan |-> plan, uid_dest |-> uid_dest, before |-> before, qsize |-> qsize, pq |-> <<>>]
NoLoc == Loc(EmptyDict, NoneUid, TRUE, 0)
LocPlan(plan) == Loc(plan, NoneUid, TRUE, 0)

LockIds == 1..MaxLocks

\* A faulty variant: a lock that lets everybody in.
LockFree_always(l) == TRUE

\* asyncio.Lock.locked() is false and nobody waits for the lock.
LockFree(l) == lock_holder[l] = NoCaller /\ lock_waiters[l] = <<>>

\* The caller has the lock of its `async with self._lock` and is in the body.
InBody(p) == pc[p] \notin {"idle", "waiting", "started"}

\* A faulty variant: a caller that finds the lock taken goes to the head of
\* the line.
AcquireLock_head_of_line(p) ==
    /\ pc[p] = "idle"
    /\ lock_id # 0
    /\ IF LockFree(lock_id)
       THEN /\ lock_holder' = [lock_holder EXCEPT ![lock_id] = p]
            /\ pc' = [pc EXCEPT ![p] = "locked"]
            /\ UNCHANGED lock_waiters
       ELSE /\ lock_waiters' = [lock_waiters EXCEPT ![lock_id] = <<p>> \o @]
            /\ pc' = [pc EXCEPT ![p] = "waiting"]
            /\ UNCHANGED lock_holder
    /\ UNCHANGED <<data, r_pool, wvars, lock_id, call, loc, ret>>

\* `async with self._lock:` of a public method, on entry: the caller takes
\* self._lock if it is free and else waits in line for it.
AcquireLock(p) ==
    /\ pc[p] = "idle"
    /\ lock_id # 0
    /\ IF LockFree(lock_id)
       THEN /\ lock_holder' = [lock_holder EXCEPT ![lock_id] = p]
            /\ pc' = [pc EXCEPT ![p] = "locked"]
            /\ UNCHANGED lock_waiters
       ELSE /\ lock_waiters' = [lock_waiters EXCEPT ![lock_id] = Append(@, p)]
            /\ pc' = [pc EXCEPT ![p] = "waiting"]
            /\ UNCHANGED lock_holder
    /\ UNCHANGED <<data, r_pool, wvars, lock_id, call, loc, ret>>

\* A faulty variant: the lock is released by a statement after the body,
\* which an exception skips.
ReleaseLock_on_return(p) ==
    /\ pc[p] = "ret"
    /\ \E l \in LockIds :
          /\ lock_holder[l] = p
          /\ IF ret[p].err.exc # "none"
             THEN /\ pc' = [pc EXCEPT ![p] = "idle"]
                  /\ UNCHANGED <<lock_holder, lock_waiters>>
             ELSE IF lock_waiters[l] = <<>>
             THEN /\ lock_holder' = [lock_holder EXCEPT ![l] = NoCaller]
                  /\ pc' = [pc EXCEPT ![p] = "idle"]
                  /\ UNCHANGED lock_waiters
             ELSE /\ lock_holder' = [lock_holder EXCEPT ![l] = Head(lock_waiters[l])]
                  /\ lock_waiters' = [lock_waiters EXCEPT ![l] = Tail(@)]
                  /\ pc' = [pc EXCEPT ![p] = "idle", ![Head(lock_waiters[l])] = "locked"]
    /\ call' = [call EXCEPT ![p] = NoCall]
    /\ loc' = [loc EXCEPT ![p] = NoLoc]
    /\ ret' = [ret EXCEPT ![p] = NoRet]
    /\ UNCHANGED <<data, r_pool, wvars, lock_id>>

\* `async with self._lock:` on exit (by return or by exception): the lock is
\* released and the first waiter is woken up with it; the caller has its
\* result and is free to call again.
ReleaseLock(p) ==
    /\ pc[p] = "ret"
    /\ \E l \in LockIds :
          /\ lock_holder[l] = p
          /\ IF lock_waiters[l] = <<>>
             THEN /\ lock_holder' = [lock_holder EXCEPT ![l] = NoCaller]
                  /\ pc' = [pc EXCEPT ![p] = "idle"]
                  /\ UNCHANGED lock_waiters
             ELSE /\ lock_holder' = [lock_holder EXCEPT ![l] = Head(lock_waiters[l])]
                  /\ lock_waiters' = [lock_waiters EXCEPT ![l] = Tail(@)]
                  /\ pc' = [pc EXCEPT ![p] = "idle", ![Head(lock_waiters[l])] = "locked"]
    /\ call' = [call EXCEPT ![p] = NoCall]
    /\ loc' = [loc EXCEPT ![p] = NoLoc]
    /\ ret' = [ret EXCEPT ![p] = NoRet]
    /\ UNCHANGED <<data, r_pool, wvars, lock_id>>

\* The method of caller p ends with result r of a helper.
Return(p, c, r) ==
    /\ SetManager(r.m)
    /\ pc' = [pc EXCEPT ![p] = "ret"]
    /\ call' = [call EXCEPT ![p] = c]
    /\ loc' = [loc EXCEPT ![p] = NoLoc]
    /\ ret' = [ret EXCEPT ![p] = RetOf(r)]
    /\ UNCHANGED <<r_pool, wvars, locks>>

\* The method of caller p goes on to step `next` with locals l.
GoOn(p, c, m, next, l) ==
    /\ SetManager(m)
    /\ pc' = [pc EXCEPT ![p] = next]
    /\ call' = [call EXCEPT ![p] = c]
    /\ loc' = [loc EXCEPT ![p] = l]
    /\ UNCHANGED <<r_pool, wvars, locks, ret>>

\* A read-only method returns value v.
Observe(p, c, v) ==
    /\ pc[p] = "locked"
    /\ pc' = [pc EXCEPT ![p] = "ret"]
    /\ call' = [call EXCEPT ![p] = c]
    /\ ret' = [ret EXCEPT ![p] = v]
    /\ UNCHANGED <<data, r_pool, wvars, locks, loc>>

\* ------------------------------------------------------- public methods
get_plan_queue_size(p) ==
    Observe(p, Call0("get_plan_queue_size"),
            Ret(NoExc, EmptyDict, get_plan_queue_size_(M), <<>>, FALSE))

get_plan_queue(p) ==
    Observe(p, Call0("get_plan_queue"), Ret(NoExc, EmptyDict, 0, get_plan_queue_(M), FALSE))

is_plan_running(p) ==
    Observe(p, Call0("is_plan_running"), Ret(NoExc, EmptyDict, 0, <<>>, is_plan_running_(M)))

get_running_plan_info(p) ==
    Observe(p, Call0("get_running_plan_info"),
            Ret(NoExc, get_running_plan_info_(M), 0, <<>>, FALSE))

get_plan(p, pos, uid) ==
    Observe(p, [Call0("get_plan") EXCEPT !.pos = pos, !.uid = uid],
            RetOf(get_plan_(M, pos, uid)))

\* A faulty variant: uuid4 may come up with a UID that is in use.
UsedUIDsToo == GenUIDs

\* UIDs uuid.uuid4() can return: a new UID is none of the UIDs in use.
FreshUIDs == GenUIDs \
    (DOMAIN uid_dict \cup {json_loads(plan_queue[k]).plan_uid : k \in 1..Len(plan_queue)}
                     \cup {get_running_plan_info_(M).plan_uid})

\* add_plan_to_queue: the Redis command, then the UID dictionary.
add_plan_to_queue(p, plan, pos, before_uid, after_uid) ==
    /\ pc[p] = "locked"
    /\ Len(plan_queue) < MaxQueue
    /\ \E new_uid \in IF HasKey_plan_uid(plan) THEN {NoneUid} ELSE FreshUIDs :
          LET c == [Call0("add_plan_to_queue") EXCEPT !.plan = plan, !.pos = pos,
                       !.before_uid = before_uid, !.after_uid = after_uid]
              r == add_insert(M, plan, pos, before_uid, after_uid, new_uid)
          IN  IF Raised(r) THEN Return(p, c, r)
              ELSE GoOn(p, c, r.m, "add_finish", Loc(r.plan, NoneUid, TRUE, r.qsize))

add_plan_to_queue_finish(p) ==
    /\ pc[p] = "add_finish"
    /\ Return(p, call[p], add_finish(M, loc[p].plan, loc[p].qsize))

\* pop_plan_from_queue: the Redis command, then the UID dictionary.
pop_plan_from_queue(p, pos, uid) ==
    /\ pc[p] = "locked"
    /\ LET c == [Call0("pop_plan_from_queue") EXCEPT !.pos = pos, !.uid = uid]
           r == pop_remove(M, pos, uid)
       IN  IF Raised(r) THEN Return(p, c, r)
           ELSE GoOn(p, c, r.m, "pop_finish", Loc(r.plan, NoneUid, TRUE, 0))

pop_plan_from_queue_finish(p) ==
    /\ pc[p] = "pop_finish"
    /\ Return(p, call[p], pop_finish(M, loc[p].plan))

\* move_plan: resolve source and destination, take the source out of the
\* list; then drop its UID and put it back in the list by the destination;
\* then (add_plan_to_queue_finish) enter its UID again.
move_plan(p, pos, uid, pos_dest, before_uid, after_uid) ==
    /\ pc[p] = "locked"
    /\ LET c == [Call0("move_plan") EXCEPT !.pos = pos, !.uid = uid, !.pos_dest = pos_dest,
                    !.before_uid = before_uid, !.after_uid = after_uid]
           t == move_resolve(M, pos, uid, pos_dest, before_uid, after_uid)
           r == pop_remove(M, PosNone, t.uid_source)
       IN  IF t.err # NoExc THEN Return(p, c, Result(M, t.err, EmptyDict, 0))
           ELSE IF t.uid_source = t.uid_dest
           THEN Return(p, c, Result(M, NoExc, t.plan_dest, get_plan_queue_size_(M)))
           ELSE IF Raised(r) THEN Return(p, c, r)
           ELSE GoOn(p, c, r.m, "move_reinsert", Loc(r.plan, t.uid_dest, t.before, 0))

move_plan_reinsert(p) ==
    /\ pc[p] = "move_reinsert"
    /\ LET f == pop_finish(M, loc[p].plan)
           a == add_insert(f.m, f.plan, PosNone,
                           IF loc[p].before THEN loc[p].uid_dest ELSE NoneUid,
                           IF loc[p].before THEN NoneUid ELSE loc[p].uid_dest, NoneUid)
       IN  IF Raised(f) THEN Return(p, call[p], f)
           ELSE IF Raised(a) THEN Return(p, call[p], a)
           ELSE GoOn(p, call[p], a.m, "add_finish", Loc(a.plan, NoneUid, TRUE, a.qsize))

\* A variant in which move_plan catches the exception of the insertion and
\* puts the plan back at the front of the list before it raises.
move_plan_reinsert_compensates(p) ==
    /\ pc[p] = "move_reinsert"
    /\ LET f == pop_finish(M, loc[p].plan)
           back == [f.m EXCEPT !.queue = lpush(f.m.queue, json_dumps(f.plan)).list,
                               !.uid_dict = uid_dict_add(f.m.uid_dict, f.plan)]
       IN  /\ ~Raised(f)
           /\ Return(p, call[p], Result(back, Exc("RedisError", "move_reinsert"), EmptyDict, 0))

\* move_plan when a Redis command of _add_plan_to_queue (LLEN, GET, LINSERT,
\* LPUSH) raises: _pop_plan_from_queue has returned, nothing catches the
\* exception and it leaves move_plan.
move_plan_reinsert_fails(p) ==
    /\ pc[p] = "move_reinsert"
    /\ LET f == pop_finish(M, loc[p].plan)
       IN  /\ ~Raised(f)
           /\ Return(p, call[p], Result(f.m, Exc("RedisError", "move_reinsert"), EmptyDict, 0))

\* clear_plan_queue: pops from the back while the list is not empty.
clear_plan_queue(p) ==
    /\ pc[p] = "locked"
    /\ LET c == Call0("clear_plan_queue")
           r == pop_remove(M, PosNone, NoneUid)
       IN  IF get_plan_queue_size_(M) = 0 THEN Return(p, c, Result(M, NoExc, EmptyDict, 0))
           ELSE IF Raised(r) THEN Return(p, c, r)
           ELSE GoOn(p, c, r.m, "clear_pop_finish", LocPlan(r.plan))

clear_plan_queue_next(p) ==
    /\ pc[p] = "clear_pop_finish"
    /\ LET f == pop_finish(M, loc[p].plan)
           r == pop_remove(f.m, PosNone, NoneUid)
       IN  IF Raised(f) THEN Return(p, call[p], f)
           ELSE IF get_plan_queue_size_(f.m) = 0
           THEN Return(p, call[p], Result(f.m, NoExc, EmptyDict, 0))
           ELSE IF Raised(r) THEN Return(p, call[p], r)
           ELSE GoOn(p, call[p], r.m, "clear_pop_finish", LocPlan(r.plan))

\* set_next_plan_as_running: LPOP, then SET of the running plan.
set_next_plan_as_running(p) ==
    /\ pc[p] = "locked"
    /\ LET c == Call0("set_next_plan_as_running")
           r == lpop(M.queue)
       IN  IF is_plan_running_(M) \/ r.reply.nil
           THEN Return(p, c, Result(M, NoExc, EmptyDict, 0))
           ELSE GoOn(p, c, [M EXCEPT !.queue = r.list], "next_set_running",
                     LocPlan(json_loads(r.reply)))

set_next_plan_as_running_set(p) ==
    /\ pc[p] = "next_set_running"
    /\ Return(p, call[p], Result(set_running_plan_info(M, loc[p].plan), NoExc, loc[p].plan, 0))

\* A faulty variant that keeps only the new entry.
add_plan_to_history_replaces(m, plan) ==
    [m EXCEPT !.history = <<[nil |-> FALSE, json |-> plan, fmt |-> "dumps"]>>]

\* _add_plan_to_history
add_plan_to_history(m, plan) == [m EXCEPT !.history = rpush(m.history, json_dumps(plan)).list]

\* set_processed_plan_as_completed: the running plan is cleared; then its UID
\* is dropped and the plan is pushed to the history.
set_processed_plan_as_completed(p, exit_status) ==
    /\ pc[p] = "locked"
    /\ Len(plan_history) < MaxHistory
    /\ LET c == [Call0("set_processed_plan_as_completed") EXCEPT !.exit_status = exit_status]
           plan == [get_running_plan_info_(M) EXCEPT !.exit_status = exit_status]
       IN  IF ~is_plan_running_(M) THEN Return(p, c, Result(M, NoExc, EmptyDict, 0))
           ELSE GoOn(p, c, clear_running_plan_info(M), "completed_history", LocPlan(plan))

set_processed_plan_as_completed_history(p) ==
    /\ pc[p] = "completed_history"
    /\ LET plan == loc[p].plan
           r == uid_dict_remove(M.uid_dict, plan.plan_uid)
       IN  IF ~HasKey_plan_uid(plan)
           THEN Return(p, call[p], Result(M, Exc("KeyError", "plan_uid"), plan, 0))
           ELSE IF r.err # NoExc THEN Return(p, call[p], Result(M, r.err, plan, 0))
           ELSE Return(p, call[p],
                       Result(add_plan_to_history([M EXCEPT !.uid_dict = r.d], plan),
                              NoExc, plan, 0))

\* A faulty variant that pushes the stopped plan to the back of the queue.
set_processed_plan_as_stopped_push_back(p) ==
    /\ pc[p] = "stopped_push"
    /\ GoOn(p, call[p], [M EXCEPT !.queue = rpush(M.queue, json_dumps(loc[p].plan)).list],
            "stopped_history", loc[p])

\* set_processed_plan_as_stopped: the running plan is cleared; then the plan
\* is pushed to the front of the queue; then its UID entry is updated and
\* the plan is pushed to the history.
set_processed_plan_as_stopped(p, exit_status) ==
    /\ pc[p] = "locked"
    /\ Len(plan_history) < MaxHistory
    /\ LET c == [Call0("set_processed_plan_as_stopped") EXCEPT !.exit_status = exit_status]
           plan == [get_running_plan_info_(M) EXCEPT !.exit_status = exit_status]
       IN  IF ~is_plan_running_(M) THEN Return(p, c, Result(M, NoExc, EmptyDict, 0))
           ELSE GoOn(p, c, clear_running_plan_info(M), "stopped_push", LocPlan(plan))

set_processed_plan_as_stopped_push(p) ==
    /\ pc[p] = "stopped_push"
    /\ GoOn(p, call[p], [M EXCEPT !.queue = lpush(M.queue, json_dumps(loc[p].plan)).list],
            "stopped_history", loc[p])

set_processed_plan_as_stopped_history(p) ==
    /\ pc[p] = "stopped_history"
    /\ LET plan == loc[p].plan
           r == uid_dict_update(M.uid_dict, plan)
       IN  IF ~HasKey_plan_uid(plan)
           THEN Return(p, call[p], Result(M, Exc("KeyError", "plan_uid"), plan, 0))
           ELSE IF r.err # NoExc THEN Return(p, call[p], Result(M, r.err, plan, 0))
           ELSE Return(p, call[p],
                       Result(add_plan_to_history([M EXCEPT !.uid_dict = r.d], plan),
                              NoExc, plan, 0))

\* clear_plan_history: RPOP while the history is not empty.
clear_plan_history(p) ==
    /\ pc[p] \in {"locked", "history_pop"}
    /\ IF Len(plan_history) = 0
       THEN Return(p, Call0("clear_plan_history"), Result(M, NoExc, EmptyDict, 0))
       ELSE GoOn(p, Call0("clear_plan_history"),
                 [M EXCEPT !.history = rpop(M.history).list], "history_pop", NoLoc)

\* ------------------------------------------------------------ start()
\* _remove_plan(plan, single=False) of each plan of the list in turn.
RECURSIVE remove_plans(_, _)
remove_plans(m, plans) ==
    IF plans = <<>> THEN m
    ELSE remove_plans(remove_plan(m, Head(plans), FALSE).m, Tail(plans))

\* _queue_clean: the plans of the queue without the key "plan_uid" are
\* removed, each with LREM of its json.dumps text; a running plan without
\* the key is cleared.
queue_clean(m) ==
    LET pq == get_plan_queue_(m)
        verify_plan_(plan) == HasKey_plan_uid(plan)
        plans_to_remove == SelectSeq(pq, LAMBDA plan : ~verify_plan_(plan))
        m1 == remove_plans(m, plans_to_remove)
        plan == get_running_plan_info_(m1)
    IN  IF Truthy(plan) /\ ~verify_plan_(plan) THEN clear_running_plan_info(m1) ELSE m1

\* _uid_dict_add of each plan of pq in turn, from dictionary d; stops at the
\* first exception.
RECURSIVE uid_dict_add_all(_, _)
uid_dict_add_all(d, pq) ==
    IF pq = <<>> THEN [d |-> d, err |-> NoExc]
    ELSE IF ~HasKey_plan_uid(Head(pq)) THEN [d |-> d, err |-> Exc("KeyError", "plan_uid")]
    ELSE LET r == uid_dict_add(d, Head(pq))
         IN  IF r.err # NoExc THEN r ELSE uid_dict_add_all(r.d, Tail(pq))

\* A faulty variant that initializes again although the pool is there.
start_again(p) ==
    /\ pc[p] = "idle"
    /\ lock_id < MaxLocks
    /\ lock_id' = lock_id + 1
    /\ lock_holder' = [lock_holder EXCEPT ![lock_id + 1] = p]
    /\ pc' = [pc EXCEPT ![p] = "start_pool"]
    /\ call' = [call EXCEPT ![p] = [call[p] EXCEPT !.op = "start"]]
    /\ UNCHANGED <<plan_queue, running_plan, plan_history, uid_dict, r_pool, wvars, lock_waiters,
                   loc, ret>>

\* start(): nothing when the pool is there; else a new asyncio.Lock is made
\* and taken, and the pool is asked for.
start(p) ==
    /\ pc[p] = "idle"
    /\ IF r_pool
       THEN /\ pc' = [pc EXCEPT ![p] = "started"]
            /\ UNCHANGED locks
       ELSE /\ lock_id < MaxLocks
            /\ lock_id' = lock_id + 1
            /\ lock_holder' = [lock_holder EXCEPT ![lock_id + 1] = p]
            /\ pc' = [pc EXCEPT ![p] = "start_pool"]
            /\ UNCHANGED lock_waiters
    /\ call' = [call EXCEPT ![p] = Call0("start")]
    /\ UNCHANGED <<data, r_pool, wvars, loc, ret>>

\* start() returns without having entered `async with`.
start_return(p) ==
    /\ pc[p] = "started"
    /\ pc' = [pc EXCEPT ![p] = "idle"]
    /\ call' = [call EXCEPT ![p] = NoCall]
    /\ UNCHANGED <<data, r_pool, wvars, locks, loc, ret>>

\* create_redis_pool has returned: the pool is set, _queue_clean runs.
start_queue_clean(p) ==
    /\ pc[p] = "start_pool"
    /\ r_pool' = TRUE
    /\ SetManager(queue_clean(M))
    /\ pc' = [pc EXCEPT ![p] = "start_read_queue"]
    /\ UNCHANGED <<wvars, locks, call, loc, ret>>

\* _uid_dict_initialize reads the queue.
start_read_queue(p) ==
    /\ pc[p] = "start_read_queue"
    /\ loc' = [loc EXCEPT ![p] = [NoLoc EXCEPT !.pq = get_plan_queue_(M)]]
    /\ pc' = [pc EXCEPT ![p] = "start_init_queue"]
    /\ UNCHANGED <<data, r_pool, wvars, locks, call, ret>>

\* _uid_dict_initialize clears the dictionary, enters the plans it read and
\* reads the running plan.
start_init_queue(p) ==
    /\ pc[p] = "start_init_queue"
    /\ LET r == uid_dict_add_all(EmptyUidDict, loc[p].pq)
           m == [M EXCEPT !.uid_dict = r.d]
       IN  IF r.err # NoExc THEN Return(p, call[p], Result(m, r.err, EmptyDict, 0))
           ELSE GoOn(p, call[p], m, "start_init_running", LocPlan(get_running_plan_info_(M)))

\* _uid_dict_initialize enters the running plan.
start_init_running(p) ==
    /\ pc[p] = "start_init_running"
    /\ LET r == uid_dict_add_all(M.uid_dict,
                                 IF Truthy(loc[p].plan) THEN <<loc[p].plan>> ELSE <<>>)
       IN  Return(p, call[p], Result([M EXCEPT !.uid_dict = r.d], r.err, EmptyDict, 0))

\* ------------------------------------------------- the callers' arguments
\* Selectors: the keyword arguments that say which plan and where.
Sel(pos, uid) == [pos |-> pos, uid |-> uid]
AddSel(pos, before_uid, after_uid) ==
    [pos |-> pos, before_uid |-> before_uid, after_uid |-> after_uid]
MoveSel(src, dst) ==
    [pos |-> src.pos, uid |-> src.uid, pos_dest |-> dst.pos,
     before_uid |-> dst.before_uid, after_uid |-> dst.after_uid]

\* A position string that is neither "front" nor "back".
PosOther == PosStr("middle")
\* Plans given to add_plan_to_queue: with one of the UIDs or without a UID.
NewPlans(uids) == {Plan(u, Absent) : u \in uids \cup {Absent}}

\* The calls of the general specification: each method with each kind of
\* selector, on plans with two UIDs.
SpecUIDs == {"a", "b"}
SpecSels ==
    {Sel(PosNone, NoneUid), Sel(PosStr("front"), NoneUid), Sel(PosInt(1), NoneUid)}
    \cup {Sel(PosNone, u) : u \in SpecUIDs}
SpecAddSels ==
    {AddSel(q, NoneUid, NoneUid) : q \in {PosNone, PosStr("front"), PosInt(1), PosInt(-1)}}
    \cup {AddSel(PosNone, u, NoneUid) : u \in SpecUIDs}
    \cup {AddSel(PosNone, NoneUid, u) : u \in SpecUIDs}
SpecMoveSels ==
    {MoveSel(src, dst) :
        src \in {Sel(PosStr("front"), NoneUid), Sel(PosStr("back"), NoneUid)}
                \cup {Sel(PosNone, u) : u \in SpecUIDs},
        dst \in {AddSel(PosStr("front"), NoneUid, NoneUid),
                 AddSel(PosStr("back"), NoneUid, NoneUid)}
                \cup {AddSel(PosNone, u, NoneUid) : u \in SpecUIDs}
                \cup {AddSel(PosNone, NoneUid, u) : u \in SpecUIDs}}

\* ------------------------------------------------------ specifications
\* The manager after `pq = PlanQueueOperations(); await pq.start()` on an
\* empty Redis database.
Init ==
    /\ plan_queue = <<>>
    /\ running_plan = RedisNil
    /\ plan_history = <<>>
    /\ uid_dict = EmptyUidDict
    /\ r_pool = TRUE
    /\ lock_id = 1
    /\ lock_holder = [l \in LockIds |-> NoCaller]
    /\ lock_waiters = [l \in LockIds |-> <<>>]
    /\ WorkerStarted
    /\ pc = [p \in Callers |-> "idle"]
    /\ call = [p \in Callers |-> NoCall]
    /\ loc = [p \in Callers |-> NoLoc]
    /\ ret = [p \in Callers |-> NoRet]

\* The steps that take no argument from the caller.
Steps(p) ==
    \/ AcquireLock(p)
    \/ ReleaseLock(p)
    \/ add_plan_to_queue_finish(p)
    \/ pop_plan_from_queue_finish(p)
    \/ move_plan_reinsert(p)
    \/ clear_plan_queue_next(p)
    \/ set_next_plan_as_running_set(p)
    \/ set_processed_plan_as_completed_history(p)
    \/ set_processed_plan_as_stopped_push(p)
    \/ set_processed_plan_as_stopped_history(p)

\* The methods that read.
Reads(p, sels) ==
    \/ get_plan_queue_size(p)
    \/ get_plan_queue(p)
    \/ is_plan_running(p)
    \/ get_running_plan_info(p)
    \/ \E s \in sels : get_plan(p, s.pos, s.uid)

\* The methods that run the queue.
Runs(p) ==
    \/ clear_plan_queue(p)
    \/ set_next_plan_as_running(p)
    \/ \E exit_status \in Statuses : set_processed_plan_as_completed(p, exit_status)
    \/ \E exit_status \in Statuses : set_processed_plan_as_stopped(p, exit_status)
    \/ clear_plan_history(p)

Next ==
    \E p \in SpecCallers :
        \/ Steps(p)
        \/ Reads(p, SpecSels)
        \/ Runs(p)
        \/ start(p)
        \/ start_return(p)
        \/ \E plan \in NewPlans(SpecUIDs), s \in SpecAddSels :
              add_plan_to_queue(p, plan, s.pos, s.before_uid, s.after_uid)
        \/ \E s \in SpecSels : pop_plan_from_queue(p, s.pos, s.uid)
        \/ \E s \in SpecMoveSels :
              move_plan(p, s.pos, s.uid, s.pos_dest, s.before_uid, s.after_uid)

Spec == Init /\ [][Next]_vars

\* The manager after `pq = PlanQueueOperations()`, before start(): no pool,
\* no lock, an empty UID dictionary; Redis holds what an earlier run left,
\* here also a plan without UID and the same plan twice.
PersistedQueues ==
    {<<>>, <<json_dumps(Plan("a", Absent))>>,
     <<json_dumps(Plan(Absent, Absent)), json_dumps(Plan("a", Absent))>>,
     <<json_dumps(Plan("a", Absent)), json_dumps(Plan("a", Absent))>>,
     <<json_dumps(Plan("a", Absent)), json_dumps(Plan(Absent, Absent)),
       json_dumps(Plan("b", "stopped")), json_dumps(Plan(Absent, Absent))>>,
     <<json_other(Plan("a", Absent))>>,
     <<json_dumps(Plan("a", Absent)), json_other(Plan(Absent, Absent))>>}
PersistedRunning ==
    {RedisNil, json_dumps(EmptyDict), json_dumps(Plan("b", Absent)),
     json_dumps(Plan(Absent, Absent)), json_other(Plan(Absent, Absent))}

InitConstructed ==
    /\ plan_queue \in PersistedQueues
    /\ running_plan \in PersistedRunning
    /\ plan_history = <<>>
    /\ uid_dict = EmptyUidDict
    /\ r_pool = FALSE
    /\ lock_id = 0
    /\ lock_holder = [l \in LockIds |-> NoCaller]
    /\ lock_waiters = [l \in LockIds |-> <<>>]
    /\ WorkerStarted
    /\ pc = [p \in Callers |-> "idle"]
    /\ call = [p \in Callers |-> NoCall]
    /\ loc = [p \in Callers |-> NoLoc]
    /\ ret = [p \in Callers |-> NoRet]

\* The callers start the manager, each with its own `await pq.start()`, and
\* go on to add plans, start them and read the queue.
NextStart ==
    \E p \in SpecCallers :
        \/ start(p)
        \/ start_return(p)
        \/ start_queue_clean(p)
        \/ start_read_queue(p)
        \/ start_init_queue(p)
        \/ start_init_running(p)
        \/ AcquireLock(p)
        \/ ReleaseLock(p)
        \/ get_plan_queue(p)
        \/ \E plan \in NewPlans({"b"}) :
              add_plan_to_queue(p, plan, PosNone, NoneUid, NoneUid)
        \/ add_plan_to_queue_finish(p)
        \/ set_next_plan_as_running(p)
        \/ set_next_plan_as_running_set(p)

SpecStart == InitConstructed /\ [][NextStart]_vars

\* One caller that adds plans with every kind of arguments, to queues it
\* has built with plans added, popped, started and stopped.
AddPositions ==
    {PosNone, PosStr("back"), PosStr("front"), PosOther}
    \cup {PosInt(i) : i \in (-MaxQueue)..MaxQueue}
AddSels ==
    {AddSel(q, NoneUid, NoneUid) : q \in AddPositions}
    \cup {AddSel(PosNone, u, NoneUid) : u \in UIDs}
    \cup {AddSel(PosNone, NoneUid, u) : u \in UIDs}
    \cup {AddSel(PosStr("front"), "a", NoneUid), AddSel(PosNone, "a", "b")}
AddCaller == "c1"

NextAdd ==
    \/ AcquireLock(AddCaller)
    \/ ReleaseLock(AddCaller)
    \/ \E plan \in NewPlans(UIDs), s \in AddSels :
          add_plan_to_queue(AddCaller, plan, s.pos, s.before_uid, s.after_uid)
    \/ add_plan_to_queue_finish(AddCaller)
    \/ pop_plan_from_queue(AddCaller, PosNone, NoneUid)
    \/ pop_plan_from_queue_finish(AddCaller)
    \/ set_next_plan_as_running(AddCaller)
    \/ set_next_plan_as_running_set(AddCaller)
    \/ /\ Len(plan_history) < MaxStops
       /\ \E exit_status \in Statuses :
             set_processed_plan_as_stopped(AddCaller, exit_status)
    \/ set_processed_plan_as_stopped_push(AddCaller)
    \/ set_processed_plan_as_stopped_history(AddCaller)
    \/ clear_plan_history(AddCaller)

SpecAdd == Init /\ [][NextAdd]_vars

\* One caller that pops and gets plans with every kind of arguments and
\* clears the queue, on queues it has built with plans added at the back and
\* at the front, started and stopped.
PopPositions ==
    {PosNone, PosStr("back"), PosStr("front"), PosOther}
    \cup {PosInt(i) : i \in (-MaxQueue)..MaxQueue}
PopSels ==
    {Sel(q, NoneUid) : q \in PopPositions}
    \cup {Sel(PosNone, u) : u \in UIDs}
    \cup {Sel(PosStr("front"), "a")}
PopCaller == "c1"

NextPop ==
    \/ AcquireLock(PopCaller)
    \/ ReleaseLock(PopCaller)
    \/ \E plan \in NewPlans(UIDs), pos \in {PosNone, PosStr("front")} :
          add_plan_to_queue(PopCaller, plan, pos, NoneUid, NoneUid)
    \/ add_plan_to_queue_finish(PopCaller)
    \/ \E s \in PopSels : pop_plan_from_queue(PopCaller, s.pos, s.uid)
    \/ pop_plan_from_queue_finish(PopCaller)
    \/ \E s \in PopSels : get_plan(PopCaller, s.pos, s.uid)
    \/ clear_plan_queue(PopCaller)
    \/ clear_plan_queue_next(PopCaller)
    \/ set_next_plan_as_running(PopCaller)
    \/ set_next_plan_as_running_set(PopCaller)
    \/ /\ Len(plan_history) < MaxStops
       /\ \E exit_status \in Statuses :
             set_processed_plan_as_stopped(PopCaller, exit_status)
    \/ set_processed_plan_as_stopped_push(PopCaller)
    \/ set_processed_plan_as_stopped_history(PopCaller)
    \/ clear_plan_history(PopCaller)

SpecPop == Init /\ [][NextPop]_vars

\* One caller that moves plans with every kind of source and destination,
\* and pops and gets plans by UID, on queues it has built with plans added
\* at the back and at the front, started and stopped.  The plans it adds
\* have three of the UIDs, the fourth is in no plan.
MoveUIDs == {"", "a", "b"}
MovePositions ==
    {PosStr("back"), PosStr("front"), PosOther}
    \cup {PosInt(i) : i \in (-MaxQueue)..MaxQueue}
MoveSources ==
    {Sel(q, NoneUid) : q \in MovePositions} \cup {Sel(PosNone, u) : u \in UIDs}
MoveDests ==
    {AddSel(q, NoneUid, NoneUid) : q \in MovePositions}
    \cup {AddSel(PosNone, u, NoneUid) : u \in UIDs}
    \cup {AddSel(PosNone, NoneUid, u) : u \in UIDs}
MoveSels ==
    {MoveSel(src, dst) : src \in MoveSources, dst \in MoveDests}
    \cup {MoveSel(Sel(PosNone, NoneUid), AddSel(PosStr("front"), NoneUid, NoneUid)),
          MoveSel(Sel(PosStr("front"), NoneUid), AddSel(PosNone, NoneUid, NoneUid)),
          MoveSel(Sel(PosStr("front"), "a"), AddSel(PosStr("back"), NoneUid, NoneUid)),
          MoveSel(Sel(PosStr("front"), NoneUid), AddSel(PosStr("back"), "a", NoneUid)),
          MoveSel(Sel(PosStr("front"), NoneUid), AddSel(PosNone, "a", "b"))}
MoveCaller == "c1"

NextMove ==
    \/ AcquireLock(MoveCaller)
    \/ ReleaseLock(MoveCaller)
    \/ \E plan \in NewPlans(MoveUIDs), pos \in {PosNone, PosStr("front")} :
          add_plan_to_queue(MoveCaller, plan, pos, NoneUid, NoneUid)
    \/ add_plan_to_queue_finish(MoveCaller)
    \/ \E u \in UIDs : pop_plan_from_queue(MoveCaller, PosNone, u)
    \/ pop_plan_from_queue_finish(MoveCaller)
    \/ \E u \in UIDs : get_plan(MoveCaller, PosNone, u)
    \/ \E s \in MoveSels :
          move_plan(MoveCaller, s.pos, s.uid, s.pos_dest, s.before_uid, s.after_uid)
    \/ move_plan_reinsert(MoveCaller)
    \/ set_next_plan_as_running(MoveCaller)
    \/ set_next_plan_as_running_set(MoveCaller)
    \/ /\ Len(plan_history) < MaxStops
       /\ \E exit_status \in Statuses :
             set_processed_plan_as_stopped(MoveCaller, exit_status)
    \/ set_processed_plan_as_stopped_push(MoveCaller)
    \/ set_processed_plan_as_stopped_history(MoveCaller)

SpecMove == Init /\ [][NextMove]_vars

\* One caller that runs the queue: it adds plans at the back and at the
\* front, starts the next plan, completes or stops it with either status,
\* pops, moves and clears plans, clears the history and calls start() again.
RunUIDs == {"a", "b", "c"}
RunStatuses == {"completed", "stopped"}
RunCaller == "c1"

NextRun ==
    \/ AcquireLock(RunCaller)
    \/ ReleaseLock(RunCaller)
    \/ start(RunCaller)
    \/ start_return(RunCaller)
    \/ \E plan \in NewPlans(RunUIDs), pos \in {PosNone, PosStr("front")} :
          add_plan_to_queue(RunCaller, plan, pos, NoneUid, NoneUid)
    \/ add_plan_to_queue_finish(RunCaller)
    \/ pop_plan_from_queue(RunCaller, PosNone, NoneUid)
    \/ pop_plan_from_queue_finish(RunCaller)
    \/ move_plan(RunCaller, PosStr("front"), NoneUid, PosStr("back"), NoneUid, NoneUid)
    \/ move_plan_reinsert(RunCaller)
    \/ clear_plan_queue(RunCaller)
    \/ clear_plan_queue_next(RunCaller)
    \/ set_next_plan_as_running(RunCaller)
    \/ set_next_plan_as_running_set(RunCaller)
    \/ \E exit_status \in RunStatuses :
          set_processed_plan_as_completed(RunCaller, exit_status)
    \/ set_processed_plan_as_completed_history(RunCaller)
    \/ \E exit_status \in RunStatuses : set_processed_plan_as_stopped(RunCaller, exit_status)
    \/ set_processed_plan_as_stopped_push(RunCaller)
    \/ set_processed_plan_as_stopped_history(RunCaller)
    \/ clear_plan_history(RunCaller)

SpecRun == Init /\ [][NextRun]_vars

\* One caller that gives get, pop, add and move every combination of
\* keyword arguments, the ambiguous and the incomplete ones and position
\* strings that are not positions included, on queues of plans it has added
\* and started.
ArgUIDs == {"a", "b"}
ArgPositions == {PosNone, PosStr("front"), PosStr("back"), PosOther, PosInt(0)}
ArgUIDOrNone == ArgUIDs \cup {NoneUid}
ArgCaller == "c1"

NextArgs ==
    \/ AcquireLock(ArgCaller)
    \/ ReleaseLock(ArgCaller)
    \/ \E pos \in ArgPositions, uid \in ArgUIDOrNone : get_plan(ArgCaller, pos, uid)
    \/ \E pos \in ArgPositions, uid \in ArgUIDOrNone :
          pop_plan_from_queue(ArgCaller, pos, uid)
    \/ pop_plan_from_queue_finish(ArgCaller)
    \/ \E plan \in NewPlans(ArgUIDs), pos \in ArgPositions,
          before_uid \in ArgUIDOrNone, after_uid \in ArgUIDOrNone :
          add_plan_to_queue(ArgCaller, plan, pos, before_uid, after_uid)
    \/ add_plan_to_queue_finish(ArgCaller)
    \/ \E pos \in ArgPositions, uid \in ArgUIDOrNone, pos_dest \in ArgPositions,
          before_uid \in ArgUIDOrNone, after_uid \in ArgUIDOrNone :
          move_plan(ArgCaller, pos, uid, pos_dest, before_uid, after_uid)
    \/ move_plan_reinsert(ArgCaller)
    \/ set_next_plan_as_running(ArgCaller)
    \/ set_next_plan_as_running_set(ArgCaller)
    \/ /\ Len(plan_history) < MaxStops
       /\ \E exit_status \in Statuses :
             set_processed_plan_as_stopped(ArgCaller, exit_status)
    \/ set_processed_plan_as_stopped_push(ArgCaller)
    \/ set_processed_plan_as_stopped_history(ArgCaller)

SpecArgs == Init /\ [][NextArgs]_vars

\* Two callers that add plans at the back only, start the next plan and
\* complete it; the plans come with the UIDs "a", "b", "c" in this order.
OrderUIDs == <<"a", "b", "c">>
\* How many plans have been added.
Added == Len(plan_history) + Cardinality(DOMAIN uid_dict)

NextOrder ==
    \E p \in SpecCallers :
        \/ AcquireLock(p)
        \/ ReleaseLock(p)
        \/ /\ Added < Len(OrderUIDs)
           /\ \E pos \in {PosNone, PosStr("back")} :
                 add_plan_to_queue(p, Plan(OrderUIDs[Added + 1], Absent), pos, NoneUid, NoneUid)
        \/ add_plan_to_queue_finish(p)
        \/ get_plan_queue(p)
        \/ set_next_plan_as_running(p)
        \/ set_next_plan_as_running_set(p)
        \/ set_processed_plan_as_completed(p, "completed")
        \/ set_processed_plan_as_completed_history(p)

SpecOrder == Init /\ [][NextOrder]_vars

\* Two callers that add plans at the back, start the next plan, stop it
\* and complete it, and read the history.
AgainUIDs == {"a", "b"}
AgainStops == {"stopped", "aborted"}
AgainEnds == {"completed"}

NextAgain ==
    \E p \in SpecCallers :
        \/ AcquireLock(p)
        \/ ReleaseLock(p)
        \/ \E u \in AgainUIDs :
              add_plan_to_queue(p, Plan(u, Absent), PosNone, NoneUid, NoneUid)
        \/ add_plan_to_queue_finish(p)
        \/ get_plan_queue(p)
        \/ set_next_plan_as_running(p)
        \/ set_next_plan_as_running_set(p)
        \/ \E exit_status \in AgainStops : set_processed_plan_as_stopped(p, exit_status)
        \/ set_processed_plan_as_stopped_push(p)
        \/ set_processed_plan_as_stopped_history(p)
        \/ \E exit_status \in AgainEnds : set_processed_plan_as_completed(p, exit_status)
        \/ set_processed_plan_as_completed_history(p)

SpecAgain == Init /\ [][NextAgain]_vars

\* One caller that starts the manager on what Redis holds and then pops by
\* UID and by index, adds before a plan, and starts and stops plans.
StoredCaller == "c1"
StoredUIDs == {"a", "b"}

NextStored ==
    \/ start(StoredCaller)
    \/ start_return(StoredCaller)
    \/ start_queue_clean(StoredCaller)
    \/ start_read_queue(StoredCaller)
    \/ start_init_queue(StoredCaller)
    \/ start_init_running(StoredCaller)
    \/ AcquireLock(StoredCaller)
    \/ ReleaseLock(StoredCaller)
    \/ \E u \in StoredUIDs : pop_plan_from_queue(StoredCaller, PosNone, u)
    \/ pop_plan_from_queue(StoredCaller, PosInt(0), NoneUid)
    \/ pop_plan_from_queue_finish(StoredCaller)
    \/ \E u \in StoredUIDs :
          add_plan_to_queue(StoredCaller, Plan("c", Absent), PosNone, u, NoneUid)
    \/ add_plan_to_queue(StoredCaller, Plan("b", Absent), PosNone, NoneUid, NoneUid)
    \/ add_plan_to_queue_finish(StoredCaller)
    \/ set_next_plan_as_running(StoredCaller)
    \/ set_next_plan_as_running_set(StoredCaller)
    \/ /\ Len(plan_history) < MaxStops
       /\ \E exit_status \in Statuses :
             set_processed_plan_as_stopped(StoredCaller, exit_status)
    \/ set_processed_plan_as_stopped_push(StoredCaller)
    \/ set_processed_plan_as_stopped_history(StoredCaller)

SpecStored == InitConstructed /\ [][NextStored]_vars

\* One caller that adds plans, starts the next one and moves plans, with
\* Redis commands that may raise after move_plan has taken the source out.
FailUIDs == {"a", "b", "c"}
FailCaller == "c1"
FailSels ==
    {MoveSel(src, dst) :
        src \in {Sel(PosStr("front"), NoneUid), Sel(PosStr("back"), NoneUid)}
                \cup {Sel(PosNone, u) : u \in FailUIDs},
        dst \in {AddSel(PosStr("front"), NoneUid, NoneUid),
                 AddSel(PosStr("back"), NoneUid, NoneUid)}
                \cup {AddSel(PosNone, u, NoneUid) : u \in FailUIDs}
                \cup {AddSel(PosNone, NoneUid, u) : u \in FailUIDs}}

NextFail ==
    \/ AcquireLock(FailCaller)
    \/ ReleaseLock(FailCaller)
    \/ \E plan \in NewPlans(FailUIDs) :
          add_plan_to_queue(FailCaller, plan, PosNone, NoneUid, NoneUid)
    \/ add_plan_to_queue_finish(FailCaller)
    \/ \E s \in FailSels :
          move_plan(FailCaller, s.pos, s.uid, s.pos_dest, s.before_uid, s.after_uid)
    \/ move_plan_reinsert(FailCaller)
    \/ move_plan_reinsert_fails(FailCaller)
    \/ set_next_plan_as_running(FailCaller)
    \/ set_next_plan_as_running_set(FailCaller)

SpecFail == Init /\ [][NextFail]_vars

\* Three callers that add plans at the back, read the size of the queue and
\* clear the queue, each of them going on with its method once it is in
\* it: every Redis command returns, and the event loop runs every
\* coroutine that is ready.
LiveUIDs == {"a"}
LiveOf(p) ==
    \/ AcquireLock(p)
    \/ ReleaseLock(p)
    \/ get_plan_queue_size(p)
    \/ \E plan \in NewPlans(LiveUIDs) : add_plan_to_queue(p, plan, PosNone, NoneUid, NoneUid)
    \/ add_plan_to_queue_finish(p)
    \/ clear_plan_queue(p)
    \/ clear_plan_queue_next(p)
NextLive == \E p \in Callers : LiveOf(p)
\* The caller is in the body of `async with self._lock` and takes its
\* next step.
Continue(p) == InBody(p) /\ LiveOf(p)

SpecLive == Init /\ [][NextLive]_vars /\ \A p \in Callers : WF_vars(Continue(p))

\* ============================================================ the worker
\* The threads of RunEngineWorker: the communication thread runs the
\* handlers one at a time, the main thread runs _execute_in_main_thread,
\* a task thread runs one task_func.  A step is a stretch of one thread's
\* code that reads or writes the shared attributes at one place.

\* A handler returns its message.
Answer(cmd, status) ==
    /\ comm' = CommIdle
    /\ reply' = [cmd |-> cmd, status |-> status, background_tasks_num |-> 0]

\* self._execution_queue.put((parameters, exec_option)).
put(exec_option) ==
    execution_queue' = Append(execution_queue, [exec_option |-> exec_option])

\* ------------------------------------------------- command_run_plan
\* _command_run_plan_handler, `if not self._execution_queue.empty()`.
command_run_plan_handler(plan_info) ==
    /\ comm.pc = "idle"
    /\ IF execution_queue # <<>>
       THEN Answer("run_plan", "rejected")
       ELSE /\ comm' = [CommIdle EXCEPT !.pc = "run_plan_RE", !.plan_info = plan_info]
            /\ UNCHANGED reply
    /\ UNCHANGED <<qvars, env_state, running_plan_info, running_plan_completed,
                   execution_queue, RE_state, pause_requested, re_report,
                   background_tasks_num, main, tasks>>

\* `elif self._RE._state == "running"`.
command_run_plan_handler_RE ==
    /\ comm.pc = "run_plan_RE"
    /\ IF RE_state = "running"
       THEN Answer("run_plan", "rejected")
       ELSE /\ comm' = [comm EXCEPT !.pc = "run_plan_info"]
            /\ UNCHANGED reply
    /\ UNCHANGED <<qvars, env_state, running_plan_info, running_plan_completed,
                   execution_queue, RE_state, pause_requested, re_report,
                   background_tasks_num, main, tasks>>

\* `elif self._running_plan_info or self._running_plan_completed`.
command_run_plan_handler_info ==
    /\ comm.pc = "run_plan_info"
    /\ IF IsSet(running_plan_info) \/ running_plan_completed
       THEN Answer("run_plan", "rejected")
       ELSE /\ comm' = [comm EXCEPT !.pc = "start_new_plan"]
            /\ UNCHANGED reply
    /\ UNCHANGED <<qvars, env_state, running_plan_info, running_plan_completed,
                   execution_queue, RE_state, pause_requested, re_report,
                   background_tasks_num, main, tasks>>

\* _start_new_plan up to the log line: RejectedError unless the environment
\* is idle; the plan is stored; plan_info["name"] raises KeyError, which
\* the handler answers with "error".
start_new_plan ==
    /\ comm.pc = "start_new_plan"
    /\ IF env_state # "idle"
       THEN /\ Answer("run_plan", "rejected")
            /\ UNCHANGED <<env_state, running_plan_info, running_plan_completed>>
       ELSE /\ running_plan_info' = Some(comm.plan_info)
            /\ running_plan_completed' = FALSE
            /\ env_state' = "executing_plan"
            /\ IF "name" \in comm.plan_info
               THEN /\ comm' = [comm EXCEPT !.pc = "start_new_plan_put"]
                    /\ UNCHANGED reply
               ELSE Answer("run_plan", "error")
    /\ UNCHANGED <<qvars, execution_queue, RE_state, pause_requested, re_report,
                   background_tasks_num, main, tasks>>

\* _start_new_plan, the put; the handler answers "accepted".
start_new_plan_put ==
    /\ comm.pc = "start_new_plan_put"
    /\ put("new")
    /\ Answer("run_plan", "accepted")
    /\ UNCHANGED <<qvars, env_state, running_plan_info, running_plan_completed,
                   RE_state, pause_requested, re_report, background_tasks_num,
                   main, tasks>>

\* --------------------------------------------- command_continue_plan
\* _command_continue_plan_handler, `if self._RE.state == "paused"`.
command_continue_plan_handler(option) ==
    /\ comm.pc = "idle"
    /\ IF RE_state # "paused"
       THEN Answer("continue_plan", "rejected")
       ELSE /\ comm' = [CommIdle EXCEPT !.pc = "continue_plan", !.option = option]
            /\ UNCHANGED reply
    /\ UNCHANGED <<qvars, env_state, running_plan_info, running_plan_completed,
                   execution_queue, RE_state, pause_requested, re_report,
                   background_tasks_num, main, tasks>>

\* _continue_plan without its check of the environment state.
continue_plan_any_state ==
    /\ comm.pc = "continue_plan"
    /\ IF comm.option \notin available_options
       THEN /\ Answer("continue_plan", "error")
            /\ UNCHANGED env_state
       ELSE /\ env_state' = "executing_plan"
            /\ comm' = [comm EXCEPT !.pc = "continue_plan_put"]
            /\ UNCHANGED reply
    /\ UNCHANGED <<qvars, running_plan_info, running_plan_completed, execution_queue,
                   RE_state, pause_requested, re_report, background_tasks_num,
                   main, tasks>>

\* _continue_plan up to the log line.
continue_plan ==
    /\ comm.pc = "continue_plan"
    /\ IF comm.option \notin available_options
       THEN /\ Answer("continue_plan", "error")
            /\ UNCHANGED env_state
       ELSE IF env_state # "idle"
       THEN /\ Answer("continue_plan", "rejected")
            /\ UNCHANGED env_state
       ELSE /\ env_state' = "executing_plan"
            /\ comm' = [comm EXCEPT !.pc = "continue_plan_put"]
            /\ UNCHANGED reply
    /\ UNCHANGED <<qvars, running_plan_info, running_plan_completed, execution_queue,
                   RE_state, pause_requested, re_report, background_tasks_num,
                   main, tasks>>

\* _continue_plan, the put.
continue_plan_put ==
    /\ comm.pc = "continue_plan_put"
    /\ put(comm.option)
    /\ Answer("continue_plan", "accepted")
    /\ UNCHANGED <<qvars, env_state, running_plan_info, running_plan_completed,
                   RE_state, pause_requested, re_report, background_tasks_num,
                   main, tasks>>

\* ------------------------------------------------------- _start_task
\* The task threads that do not run.
FreeTasks == {t \in TaskIds : tasks[t].pc = "none"}

\* _start_task up to line 582, for a background task up to the read of
\* self._background_tasks_num in `+= 1`.
start_task(run_in_background, run_in_separate_thread) ==
    /\ comm.pc = "idle"
    /\ IF ~run_in_background /\ env_state # "idle"
       THEN /\ Answer("start_task", "rejected")
            /\ UNCHANGED env_state
       ELSE IF run_in_background
       THEN /\ comm' = [CommIdle EXCEPT !.pc = "start_task_add",
                                        !.run_in_background = TRUE,
                                        !.run_in_separate_thread = run_in_separate_thread,
                                        !.num = background_tasks_num]
            /\ UNCHANGED <<env_state, reply>>
       ELSE /\ env_state' = "executing_task"
            /\ comm' = [CommIdle EXCEPT
                          !.pc = IF run_in_separate_thread THEN "start_task_thread"
                                 ELSE "start_task_put",
                          !.run_in_separate_thread = run_in_separate_thread]
            /\ UNCHANGED reply
    /\ UNCHANGED <<qvars, running_plan_info, running_plan_completed, execution_queue,
                   RE_state, pause_requested, re_report, background_tasks_num,
                   main, tasks>>

\* The write of `self._background_tasks_num += 1`.
start_task_add ==
    /\ comm.pc = "start_task_add"
    /\ background_tasks_num' = comm.num + 1
    /\ comm' = [comm EXCEPT !.pc = "start_task_thread"]
    /\ UNCHANGED <<qvars, env_state, running_plan_info, running_plan_completed,
                   execution_queue, RE_state, pause_requested, re_report,
                   main, tasks, reply>>

\* th.start().
start_task_thread ==
    /\ comm.pc = "start_task_thread"
    /\ FreeTasks # {}
    /\ LET t == CHOOSE f \in FreeTasks : \A g \in FreeTasks : f <= g
       IN  tasks' = [tasks EXCEPT ![t] = [pc |-> "running",
                                          run_in_background |-> comm.run_in_background,
                                          num |-> 0]]
    /\ Answer("start_task", "accepted")
    /\ UNCHANGED <<qvars, env_state, running_plan_info, running_plan_completed,
                   execution_queue, RE_state, pause_requested, re_report,
                   background_tasks_num, main>>

\* self._execution_queue.put((parameters, ExecOption.TASK)).
start_task_put ==
    /\ comm.pc = "start_task_put"
    /\ put("task")
    /\ Answer("start_task", "accepted")
    /\ UNCHANGED <<qvars, env_state, running_plan_info, running_plan_completed,
                   RE_state, pause_requested, re_report, background_tasks_num,
                   main, tasks>>

\* ------------------------------------------------ the other handlers
\* _command_reset_worker_handler, lines 997-999.
command_reset_worker_handler ==
    /\ comm.pc = "idle"
    /\ IF RE_state = "idle"
       THEN /\ running_plan_info' = NoneValue
            /\ running_plan_completed' = FALSE
            /\ comm' = [CommIdle EXCEPT !.pc = "reset_worker_report"]
            /\ UNCHANGED reply
       ELSE /\ Answer("reset_worker", "rejected")
            /\ UNCHANGED <<running_plan_info, running_plan_completed>>
    /\ UNCHANGED <<qvars, env_state, execution_queue, RE_state, pause_requested,
                   re_report, background_tasks_num, main, tasks>>

\* _command_reset_worker_handler, the report is cleared under its lock.
command_reset_worker_handler_report ==
    /\ comm.pc = "reset_worker_report"
    /\ re_report' = NoneValue
    /\ Answer("reset_worker", "accepted")
    /\ UNCHANGED <<qvars, env_state, running_plan_info, running_plan_completed,
                   execution_queue, RE_state, pause_requested, background_tasks_num,
                   main, tasks>>

\* _request_plan_report_handler: the report is returned and cleared.
request_plan_report_handler ==
    /\ comm.pc = "idle"
    /\ re_report' = NoneValue
    /\ Answer("plan_report",
              IF re_report = NoneValue THEN "None" ELSE re_report[1].plan_state)
    /\ UNCHANGED <<qvars, env_state, running_plan_info, running_plan_completed,
                   execution_queue, RE_state, pause_requested, background_tasks_num,
                   main, tasks>>

\* _request_state_handler: the message carries the counter as it is read.
request_state_handler ==
    /\ comm.pc = "idle"
    /\ comm' = CommIdle
    /\ reply' = [cmd |-> "state", status |-> env_state,
                 background_tasks_num |-> background_tasks_num]
    /\ UNCHANGED <<qvars, env_state, running_plan_info, running_plan_completed,
                   execution_queue, RE_state, pause_requested, re_report,
                   background_tasks_num, main, tasks>>

\* _command_pause_plan_handler with one of its two options.
command_pause_plan_handler ==
    /\ comm.pc = "idle"
    /\ IF RE_state = "running"
       THEN /\ pause_requested' = TRUE
            /\ Answer("pause_plan", "accepted")
       ELSE /\ Answer("pause_plan", "rejected")
            /\ UNCHANGED pause_requested
    /\ UNCHANGED <<qvars, env_state, running_plan_info, running_plan_completed,
                   execution_queue, RE_state, re_report, background_tasks_num,
                   main, tasks>>

\* ---------------------------------------------------- the main thread
\* _execute_in_main_thread: get(False) finds an element.
execute_in_main_thread ==
    /\ main.pc = "poll"
    /\ execution_queue # <<>>
    /\ execution_queue' = Tail(execution_queue)
    /\ main' = [pc |-> IF Head(execution_queue).exec_option = "task" THEN "task" ELSE "plan",
                exec_option |-> Head(execution_queue).exec_option]
    /\ UNCHANGED <<qvars, env_state, running_plan_info, running_plan_completed,
                   RE_state, pause_requested, re_report, background_tasks_num,
                   comm, tasks, reply>>

\* The state the Run Engine takes when func() enters it.
RE_entered(exec_option) ==
    CASE exec_option \in {"new", "resume"} -> {"running"}
      [] exec_option = "stop" -> {"running", "stopping"}
      [] exec_option = "abort" -> {"running", "aborting"}
      [] exec_option = "halt" -> {"running", "halting"}

\* _execute_plan: _generate_new_plan or _generate_continued_plan, then
\* func() enters the Run Engine.  The generators raise RuntimeError when
\* the Run Engine is not idle (new) or not paused (continued); prepare_plan
\* may reject a new plan.
execute_plan ==
    /\ main.pc = "plan"
    /\ \/ /\ RE_state = IF main.exec_option = "new" THEN "idle" ELSE "paused"
          /\ RE_state' \in RE_entered(main.exec_option)
          /\ main' = [main EXCEPT !.pc = "running"]
       \/ /\ main.exec_option = "new" \/ RE_state # "paused"
          /\ main' = [main EXCEPT !.pc = "raised"]
          /\ UNCHANGED RE_state
    /\ UNCHANGED <<qvars, env_state, running_plan_info, running_plan_completed,
                   execution_queue, pause_requested, re_report, background_tasks_num,
                   comm, tasks, reply>>

\* func() returns: the plan ran to its end.
execute_plan_returns ==
    /\ main.pc = "running"
    /\ RE_state' = "idle"
    /\ pause_requested' = FALSE
    /\ main' = [main EXCEPT !.pc = "returned"]
    /\ UNCHANGED <<qvars, env_state, running_plan_info, running_plan_completed,
                   execution_queue, re_report, background_tasks_num,
                   comm, tasks, reply>>

\* func() raises: the plan was paused (a new or resumed plan) or failed.
execute_plan_raises ==
    /\ main.pc = "running"
    /\ RE_state' \in (IF main.exec_option \in {"new", "resume"}
                      THEN {"paused", "idle", "panicked"}
                      ELSE {"idle", "panicked"})
    /\ pause_requested' = FALSE
    /\ main' = [main EXCEPT !.pc = "raised"]
    /\ UNCHANGED <<qvars, env_state, running_plan_info, running_plan_completed,
                   execution_queue, re_report, background_tasks_num,
                   comm, tasks, reply>>

Report(plan_state, success) ==
    Some([action |-> "plan_exit", plan_state |-> plan_state, success |-> success,
          re_state |-> RE_state])

\* _execute_plan, the block under self._re_report_lock of the try part or
\* of the except part.  The lock makes the block one step against the two
\* handlers that take the lock.
execute_plan_report ==
    /\ main.pc \in {"returned", "raised"}
    /\ IF main.pc = "returned"
       THEN /\ re_report' = Report(plan_exit_status_expected(main.exec_option), TRUE)
            /\ running_plan_completed' = TRUE
       ELSE IF RE_state = "paused"
       THEN /\ re_report' = Report("paused", TRUE)
            /\ UNCHANGED running_plan_completed
       ELSE /\ re_report' = Report("failed", FALSE)
            /\ running_plan_completed' = TRUE
    /\ main' = [main EXCEPT !.pc = "exit"]
    /\ UNCHANGED <<qvars, env_state, running_plan_info, execution_queue, RE_state,
                   pause_requested, background_tasks_num, comm, tasks, reply>>

\* _execute_plan, `self._env_state = EState.IDLE`.
execute_plan_exit ==
    /\ main.pc = "exit"
    /\ env_state' = "idle"
    /\ main' = MainPolling
    /\ UNCHANGED <<qvars, running_plan_info, running_plan_completed, execution_queue,
                   RE_state, pause_requested, re_report, background_tasks_num,
                   comm, tasks, reply>>

\* _execute_task: task_func runs in the main thread to its `finally`.
execute_task ==
    /\ main.pc = "task"
    /\ env_state' = "idle"
    /\ main' = MainPolling
    /\ UNCHANGED <<qvars, running_plan_info, running_plan_completed, execution_queue,
                   RE_state, pause_requested, re_report, background_tasks_num,
                   comm, tasks, reply>>

\* ---------------------------------------------------- the task threads
\* task_func of a foreground task in its own thread, to its `finally`.
task_func_foreground(t) ==
    /\ tasks[t].pc = "running"
    /\ ~tasks[t].run_in_background
    /\ env_state' = "idle"
    /\ tasks' = [tasks EXCEPT ![t] = NoTask]
    /\ UNCHANGED <<qvars, running_plan_info, running_plan_completed, execution_queue,
                   RE_state, pause_requested, re_report, background_tasks_num,
                   comm, main, reply>>

\* task_func of a background task: `self._background_tasks_num - 1` is
\* computed, max is about to be called.
task_func_background(t) ==
    /\ tasks[t].pc = "running"
    /\ tasks[t].run_in_background
    /\ tasks' = [tasks EXCEPT ![t].pc = "max", ![t].num = background_tasks_num - 1]
    /\ UNCHANGED <<qvars, env_state, running_plan_info, running_plan_completed,
                   execution_queue, RE_state, pause_requested, re_report,
                   background_tasks_num, comm, main, reply>>

\* max(a, b).
max(a, b) == IF a >= b THEN a ELSE b

\* task_func of a background task: the result of max is stored.
task_func_background_max(t) ==
    /\ tasks[t].pc = "max"
    /\ background_tasks_num' = max(tasks[t].num, 0)
    /\ tasks' = [tasks EXCEPT ![t] = NoTask]
    /\ UNCHANGED <<qvars, env_state, running_plan_info, running_plan_completed,
                   execution_queue, RE_state, pause_requested, re_report,
                   comm, main, reply>>

\* ------------------------------------------------ worker specifications
\* The steps of the main thread.
MainThread ==
    \/ execute_in_main_thread
    \/ execute_plan
    \/ execute_plan_returns
    \/ execute_plan_raises
    \/ execute_plan_report
    \/ execute_plan_exit
    \/ execute_task

\* The steps of the communication thread on plans and foreground tasks: a
\* handler starts when a command arrives, a started handler goes on.  A
\* task that needs a thread is started while a thread of the model is free.
CommThread ==
    \/ \E plan_info \in PlanInfos : command_run_plan_handler(plan_info)
    \/ command_run_plan_handler_RE
    \/ command_run_plan_handler_info
    \/ start_new_plan
    \/ start_new_plan_put
    \/ \E option \in ContinueOptions : command_continue_plan_handler(option)
    \/ continue_plan
    \/ continue_plan_put
    \/ \E run_in_separate_thread \in BOOLEAN :
          /\ run_in_separate_thread => FreeTasks # {}
          /\ start_task(FALSE, run_in_separate_thread)
    \/ start_task_thread
    \/ start_task_put
    \/ command_reset_worker_handler
    \/ command_reset_worker_handler_report
    \/ request_plan_report_handler
    \/ command_pause_plan_handler

\* The worker with plans and foreground tasks.
NextWorker ==
    \/ CommThread
    \/ MainThread
    \/ \E t \in TaskIds : task_func_foreground(t)
SpecWorker == Init /\ [][NextWorker]_vars

\* The main thread is scheduled again and again, and a plan the Run Engine
\* runs comes to an end.
SpecWorkerFair == SpecWorker /\ WF_vars(MainThread)

\* The steps of the communication thread on tasks and on the state request.
\* A background task is started while the counter is below MaxTasks.
CommTasks ==
    \/ \E run_in_background, run_in_separate_thread \in BOOLEAN :
          /\ (run_in_background \/ run_in_separate_thread) => FreeTasks # {}
          /\ run_in_background => background_tasks_num < MaxTasks
          /\ start_task(run_in_background, run_in_separate_thread)
    \/ start_task_add
    \/ start_task_thread
    \/ start_task_put
    \/ request_state_handler

TaskThreads ==
    \E t \in TaskIds :
        \/ task_func_foreground(t)
        \/ task_func_background(t)
        \/ task_func_background_max(t)

\* The worker with tasks only.
NextTasks ==
    \/ CommTasks
    \/ execute_in_main_thread
    \/ execute_task
    \/ TaskThreads
SpecTasks == Init /\ [][NextTasks]_vars

\* ================================================================ claims
\* No caller holds a lock: no public method is between acquire and release.
Quiescent == \A l \in LockIds : lock_holder[l] = NoCaller

QueueUIDs == {json_loads(plan_queue[k]).plan_uid : k \in 1..Len(plan_queue)}
RunningUIDs == IF is_plan_running_(M) THEN {get_running_plan_info_(M).plan_uid} ELSE {}
\* Some plan of the queue has gone through set_processed_plan_as_stopped.
SomeQueuedStopped ==
    \E k \in 1..Len(plan_queue) : json_loads(plan_queue[k]).exit_status # Absent

C2_UIDsUnique ==
    Quiescent =>
        /\ \A j, k \in 1..Len(plan_queue) :
              json_loads(plan_queue[j]).plan_uid = json_loads(plan_queue[k]).plan_uid
                  => j = k
        /\ RunningUIDs \cap QueueUIDs = {}

\* C2, its case: a quiescent state with two plans queued, both UIDs in the
\* dictionary.
C2_Witness ==
    /\ Quiescent
    /\ Len(plan_queue) >= 2
    /\ Cardinality(DOMAIN uid_dict) >= 2

\* C3: at no time is more than one caller between acquiring and releasing
\* the lock of a public method, start() and the reading methods included,
\* and the manager has one lock object for all of its life.
C3_OneCallerOneLock ==
    /\ Cardinality({p \in Callers : InBody(p)}) <= 1
    /\ lock_id <= 1

\* The methods that only read.
ReadOps ==
    {"get_plan_queue_size", "get_plan_queue", "is_plan_running", "get_running_plan_info",
     "get_plan"}
\* What the read method of call c returns on the data as they are now.
ReadValue(c) ==
    CASE c.op = "get_plan_queue_size" ->
            Ret(NoExc, EmptyDict, get_plan_queue_size_(M), <<>>, FALSE)
      [] c.op = "get_plan_queue" -> Ret(NoExc, EmptyDict, 0, get_plan_queue_(M), FALSE)
      [] c.op = "is_plan_running" -> Ret(NoExc, EmptyDict, 0, <<>>, is_plan_running_(M))
      [] c.op = "get_running_plan_info" ->
            Ret(NoExc, get_running_plan_info_(M), 0, <<>>, FALSE)
      [] OTHER -> RetOf(get_plan_(M, c.pos, c.uid))

\* C4: a method that reads (size, list, get, is_plan_running,
\* get_running_plan_info) returns the data as they are between two whole
\* operations: when it returns, no other caller is inside a method, so it
\* never sees the queue without the plan move_plan has taken out, nor the
\* stopped plan in neither the running slot nor the queue.
C4_ReadsSeeWholeOperations ==
    \A p \in Callers :
        (pc[p] = "ret" /\ call[p].op \in ReadOps) =>
            /\ \A q \in Callers \ {p} : ~InBody(q)
            /\ ret[p] = ReadValue(call[p])

\* C4, its case: a caller is between the Redis commands of move_plan or of
\* set_processed_plan_as_stopped while the other caller has called a
\* method and waits for the lock.
C4_Witness ==
    \E p, q \in Callers :
        /\ pc[q] \in {"move_reinsert", "stopped_push"}
        /\ pc[p] = "waiting"

\* How many times UID u is held: by plans of the queue, by the running plan
\* and by plans a method has taken out of Redis and has in hand.
InHand(p) ==
    pc[p] \in {"pop_finish", "move_reinsert", "clear_pop_finish", "next_set_running",
               "completed_history", "stopped_push"}
Occurrences(u) ==
    Cardinality({k \in 1..Len(plan_queue) : json_loads(plan_queue[k]).plan_uid = u})
    + Cardinality(RunningUIDs \cap {u})
    + Cardinality({p \in Callers : InHand(p) /\ loc[p].plan.plan_uid = u})
\* The step is one of a method of ops: its caller moves on in it.
StepOf(ops) ==
    \E p \in Callers :
        /\ call'[p].op \in ops
        /\ <<pc[p], call[p], loc[p], ret[p]>> # <<pc'[p], call'[p], loc'[p], ret'[p]>>

\* C5: no plan is lost or duplicated without a call that says so: a UID
\* held once stays held at most once, it goes away only in a step of pop,
\* clear or completed, it comes in only in a step of add, and the steps of
\* move_plan, set_next_plan_as_running and set_processed_plan_as_stopped
\* leave the number of times each UID is held as it was.
C5_NoPlanLostOrDuplicated ==
    [][\A u \in UIDs :
          /\ Occurrences(u)' <= 1
          /\ (Occurrences(u) = 1 /\ Occurrences(u)' = 0) =>
                StepOf({"pop_plan_from_queue", "clear_plan_queue",
                        "set_processed_plan_as_completed"})
          /\ (Occurrences(u) = 0 /\ Occurrences(u)' = 1) => StepOf({"add_plan_to_queue"})
          /\ StepOf({"move_plan", "set_next_plan_as_running",
                     "set_processed_plan_as_stopped"})
                => Occurrences(u)' = Occurrences(u)]_vars

\* C5, its case: move_plan has returned the plan it moved among the plans of
\* the queue.
C5_Witness ==
    \E p \in Callers :
        /\ pc[p] = "ret"
        /\ call[p].op = "move_plan"
        /\ ret[p].err = NoExc
        /\ Len(plan_queue) >= 2
        /\ Truthy(ret[p].plan)

\* ------------------------------------------------- add_plan_to_queue
\* The step of add_plan_to_queue that checks the arguments and runs the
\* Redis command; its arguments are in call'[p].
AddStep(p) == pc[p] = "locked" /\ call'[p].op = "add_plan_to_queue"
\* ... and has put the plan in the list,
AddInserted(p) == AddStep(p) /\ pc'[p] = "add_finish"
\* The step in which add_plan_to_queue returns after the insertion.
AddReturns(p) == pc[p] = "add_finish" /\ call[p].op = "add_plan_to_queue"
\* The plan add_plan_to_queue was given, p_new, is what it has put in the
\* list, up to the UID it has generated.
SameItem(given, stored) ==
    IF HasKey_plan_uid(given) THEN stored = given
    ELSE stored = [given EXCEPT !.plan_uid = stored.plan_uid] /\ HasKey_plan_uid(stored)
\* The item is one add accepts: it has no UID or a UID that is not in use.
Acceptable(plan) ==
    ~HasKey_plan_uid(plan) \/ plan.plan_uid \notin (QueueUIDs \cup RunningUIDs)
\* list with text put in so that it is at (zero-based) index k.
InsertAt(list, k, text) ==
    SubSeq(list, 1, k) \o <<text>> \o SubSeq(list, k + 1, Len(list))
\* Zero-based index of the plan with UID u in the queue.
IndexOfUID(u) ==
    CHOOSE k \in 0..(Len(plan_queue) - 1) : json_loads(plan_queue[k + 1]).plan_uid = u
\* Where a plan added with `pos` to a queue of n plans is to end up.
PosTarget(pos, n) ==
    IF IsNonePos(pos) \/ IsStr(pos, "back") \/ (IsInt(pos) /\ pos.i >= n) THEN n
    ELSE IF IsStr(pos, "front") \/ (IsInt(pos) /\ (pos.i = 0 \/ pos.i <= -n)) THEN 0
    ELSE IF pos.i > 0 THEN pos.i
    ELSE n + pos.i
NoUIDGiven(c) == c.before_uid = NoneUid /\ c.after_uid = NoneUid

\* C6: a successful add(item, pos) gives the old queue with the item put in
\* and the other plans in the order they had: at the back for pos "back",
\* None or an integer >= n, at the front for "front", 0 or an integer
\* <= -n, and else right before the plan that was at index pos (negative
\* pos counted from the back), so at index pos for 1 <= pos <= n-1.
C6_AddByPosition ==
    [][\A p \in Callers :
          /\ (AddInserted(p) /\ NoUIDGiven(call'[p])) =>
                /\ SameItem(call'[p].plan, loc'[p].plan)
                /\ plan_queue' = InsertAt(plan_queue,
                                          PosTarget(call'[p].pos, Len(plan_queue)),
                                          json_dumps(loc'[p].plan))
          /\ AddReturns(p) =>
                /\ plan_queue' = plan_queue
                /\ ret'[p].err = NoExc
                /\ ret'[p].plan = loc[p].plan]_vars

\* C6, its case: add with pos=2 to a queue of three plans has returned and
\* the new plan is at index 2 of the four.
C6_Witness ==
    \E p \in Callers :
        /\ pc[p] = "ret"
        /\ call[p].op = "add_plan_to_queue"
        /\ ret[p].err = NoExc
        /\ call[p].pos = PosInt(2)
        /\ Len(plan_queue) = 4
        /\ json_loads(plan_queue[3]) = ret[p].plan

\* The arguments name one way of placing the plan.
PlacementMode(c) ==
    /\ IsNonePos(c.pos) \/ NoUIDGiven(c)
    /\ c.before_uid = NoneUid \/ c.after_uid = NoneUid

\* C7: add of a plan whose UID is the UID of a plan of the queue or of the
\* running plan raises the duplicate error (the RuntimeError of
\* _verify_plan) and changes nothing in the queue, the running plan, the
\* history and the UID dictionary, whatever the placement arguments.
C7_AddDuplicateRejected ==
    [][\A p \in Callers :
          (/\ AddStep(p)
           /\ PlacementMode(call'[p])
           /\ call'[p].plan.plan_uid \in QueueUIDs \cup RunningUIDs) =>
              /\ pc'[p] = "ret"
              /\ ret'[p].err = Exc("RuntimeError", "verify_plan_duplicate")
              /\ UNCHANGED data]_vars

\* C7, its case: add of a plan with the UID of the running plan, to go after
\* a plan of the queue, has raised the duplicate error.
C7_Witness ==
    \E p \in Callers :
        /\ pc[p] = "ret"
        /\ call[p].op = "add_plan_to_queue"
        /\ call[p].plan.plan_uid \in RunningUIDs
        /\ call[p].after_uid \in QueueUIDs
        /\ ret[p].err = Exc("RuntimeError", "verify_plan_duplicate")

C10_AddReturnsNewSize ==
    [][\A p \in Callers :
          /\ AddInserted(p) =>
                /\ loc'[p].qsize = Len(plan_queue) + 1
                /\ Len(plan_queue') = Len(plan_queue) + 1
          /\ AddReturns(p) =>
                /\ ret'[p].err = NoExc
                /\ ret'[p].qsize = loc[p].qsize
                /\ ret'[p].qsize = Len(plan_queue')
                /\ ret'[p].plan.plan_uid \in DOMAIN uid_dict']_vars

\* C10, its case: add with an integer pos beyond the end of a queue of at
\* least two plans has returned the new length.
C10_Witness ==
    \E p \in Callers :
        /\ pc[p] = "ret"
        /\ call[p].op = "add_plan_to_queue"
        /\ ret[p].err = NoExc
        /\ IsInt(call[p].pos)
        /\ call[p].pos.i >= Len(plan_queue)
        /\ Len(plan_queue) >= 3
        /\ ret[p].qsize = Len(plan_queue)

\* ------------------------------------------------ pop_plan_from_queue
\* The step of pop_plan_from_queue that checks the arguments and runs the
\* Redis command; its arguments are in call'[p].
PopStep(p) == pc[p] = "locked" /\ call'[p].op = "pop_plan_from_queue"
\* ... and has taken a plan out of the list.
PopRemoved(p) == PopStep(p) /\ pc'[p] = "pop_finish"
\* The step in which pop_plan_from_queue returns after the removal.
PopReturns(p) == pc[p] = "pop_finish" /\ call[p].op = "pop_plan_from_queue"
\* list without the element at (zero-based) index k.
RemoveAt(list, k) == SubSeq(list, 1, k) \o SubSeq(list, k + 2, Len(list))
\* Zero-based index a position denotes in a queue of n plans; "front" is
\* index 0, "back" and None the last index, a negative integer counts from
\* the back.
PosDenotes(pos, n) ==
    IF IsNonePos(pos) \/ IsStr(pos, "back") THEN n - 1
    ELSE IF IsStr(pos, "front") THEN 0
    ELSE IF pos.i >= 0 THEN pos.i
    ELSE n + pos.i
\* Zero-based index of the plan pop or get is asked for: by UID or by pos.
SelDenotes(c) ==
    IF c.uid # NoneUid
    THEN IF c.uid \in QueueUIDs THEN IndexOfUID(c.uid) ELSE -1
    ELSE PosDenotes(c.pos, Len(plan_queue))

NewUIDsFor(x) == IF HasKey_plan_uid(x) THEN {NoneUid} ELSE FreshUIDs

\* C12: pop undoes add at the same end: from any state the manager is in
\* between two calls, add(x, pos="back") followed by pop(pos="back") returns
\* x and leaves the queue, its size and the UID dictionary (and the rest of
\* the data) as they were before the add; and so for "front".
C12_PopUndoesAdd ==
    Quiescent =>
        \A x \in NewPlans(UIDs), e \in {PosStr("back"), PosStr("front")} :
            \A new_uid \in NewUIDsFor(x) :
                LET a == add_plan_to_queue_(M, x, e, NoneUid, NoneUid, new_uid)
                    b == pop_plan_from_queue_(a.m, e, NoneUid)
                IN  ~Raised(a) =>
                        /\ ~Raised(b)
                        /\ b.plan = a.plan
                        /\ SameItem(x, b.plan)
                        /\ b.m = M
                        /\ b.qsize = Len(plan_queue)

\* C12, its case: between two calls, with two plans or more in the queue, one
\* of them stopped before, and a plan running, there is a plan that add
\* takes at the front.
C12_Witness ==
    /\ Quiescent
    /\ Len(plan_queue) >= 2
    /\ SomeQueuedStopped
    /\ is_plan_running_(M)
    /\ \E x \in NewPlans(UIDs) : \E new_uid \in NewUIDsFor(x) :
          ~Raised(add_plan_to_queue_(M, x, PosStr("front"), NoneUid, NoneUid, new_uid))

\* ----------------------------------------------------------- move_plan
\* The step of move_plan that checks the arguments, finds source and
\* destination and takes the source out of the list (or returns); its
\* arguments are in call'[p].
MoveStep(p) == pc[p] = "locked" /\ call'[p].op = "move_plan"
\* The step in which get_plan runs.
GetStep(p) == pc[p] = "locked" /\ call'[p].op = "get_plan"
\* The arguments of move_plan name the source in one way and the
\* destination in one way.
OneSource(c) == IsNonePos(c.pos) # (c.uid = NoneUid)
OneDest(c) ==
    \/ ~IsNonePos(c.pos_dest) /\ c.before_uid = NoneUid /\ c.after_uid = NoneUid
    \/ IsNonePos(c.pos_dest) /\ ((c.before_uid = NoneUid) # (c.after_uid = NoneUid))
\* The UID is the one of the running plan or is not in the UID dictionary.
RunningOrUnknown(u) == u # NoneUid /\ (u \in RunningUIDs \/ u \notin DOMAIN uid_dict)
\* The method of p raises IndexError in this step and changes no data.
NotFound(p) ==
    /\ pc'[p] = "ret"
    /\ ret'[p].err.exc = "IndexError"
    /\ UNCHANGED data

\* C13: with the UID of the running plan, and with a UID that is not in the
\* UID dictionary, pop(uid), get(uid), move with that source uid and move
\* with that before_uid each raise IndexError and leave the queue, the
\* running plan, the history and the UID dictionary as they were.
C13_RunningOrUnknownUIDNotFound ==
    [][\A p \in Callers :
          /\ (PopStep(p) /\ IsNonePos(call'[p].pos) /\ RunningOrUnknown(call'[p].uid))
                => NotFound(p)
          /\ (GetStep(p) /\ IsNonePos(call'[p].pos) /\ RunningOrUnknown(call'[p].uid))
                => NotFound(p)
          /\ (/\ MoveStep(p)
              /\ OneSource(call'[p])
              /\ OneDest(call'[p])
              /\ \/ RunningOrUnknown(call'[p].uid)
                 \/ call'[p].after_uid = NoneUid /\ RunningOrUnknown(call'[p].before_uid))
                => NotFound(p)]_vars

\* The queue with the plan at (zero-based) index k moved to index d.
MovedTo(k, d) == InsertAt(RemoveAt(plan_queue, k), d, plan_queue[k + 1])

\* C14: with a plan R running and a plan S in the queue, between two calls,
\* move(uid=S.uid, after_uid=R.uid) succeeds and leaves S at index 0 and the
\* other plans of the queue in their order.
C14_MoveAfterRunningGoesToFront ==
    Quiescent =>
        \A R \in RunningUIDs, S \in QueueUIDs :
            LET r == move_plan_(M, PosNone, S, PosNone, NoneUid, R)
            IN  /\ ~Raised(r)
                /\ r.m.queue = MovedTo(IndexOfUID(S), 0)

\* ------------------------------------------------- positions of get and pop
\* pos is None, "front", "back" or an integer.
IsPosition(pos) ==
    IsNonePos(pos) \/ IsStr(pos, "front") \/ IsStr(pos, "back") \/ IsInt(pos)
\* pos denotes a plan of a queue of n plans: an integer from -n to n-1,
\* "front" as 0, "back" and None as -1.
InRange(pos, n) ==
    LET i == IF IsStr(pos, "front") THEN 0
             ELSE IF IsNonePos(pos) \/ IsStr(pos, "back") THEN -1
             ELSE pos.i
    IN  -n <= i /\ i <= n - 1
\* The method of p raises in this step and changes no data.
FailsUnchanged(p) ==
    /\ pc'[p] = "ret"
    /\ ret'[p].err # NoExc
    /\ UNCHANGED data

\* C15: get and pop with a position succeed exactly when the position is
\* from -n to n-1 for a queue of n plans ("front" is 0, "back" is -1): then
\* get returns the plan at that index and pop goes on to return without an
\* error; on an empty queue and with an integer out of that range they
\* raise and leave queue, running plan, history and UID dictionary as they
\* were.  get changes none of them, whatever its arguments.
C15_PositionsInRange ==
    [][\A p \in Callers :
          LET c == call'[p]
              n == Len(plan_queue)
              positional == c.uid = NoneUid /\ IsPosition(c.pos)
          IN  /\ GetStep(p) => UNCHANGED data
              /\ (GetStep(p) /\ positional /\ InRange(c.pos, n)) =>
                    /\ pc'[p] = "ret"
                    /\ ret'[p].err = NoExc
                    /\ ret'[p].plan = json_loads(plan_queue[PosDenotes(c.pos, n) + 1])
              /\ (GetStep(p) /\ positional /\ ~InRange(c.pos, n)) => FailsUnchanged(p)
              /\ (PopStep(p) /\ positional /\ InRange(c.pos, n)) => PopRemoved(p)
              /\ (PopStep(p) /\ positional /\ ~InRange(c.pos, n)) => FailsUnchanged(p)
              /\ PopReturns(p) => ret'[p].err = NoExc]_vars

\* C15, its case: get with pos=-2 has returned the first of the two plans of
\* the queue.
C15_Witness ==
    \E p \in Callers :
        /\ pc[p] = "ret"
        /\ call[p].op = "get_plan"
        /\ call[p].uid = NoneUid
        /\ call[p].pos = PosInt(-2)
        /\ Len(plan_queue) = 2
        /\ ret[p].err = NoExc
        /\ ret[p].plan = json_loads(plan_queue[1])

\* ------------------------------------------------------ moves by position
\* The integer positions of a queue of n plans.
ValidInts(n) == {PosInt(i) : i \in (-n)..(n - 1)}

\* C16: between two calls, for integers pos and pos_dest from -n to n-1, of
\* either sign, a move(pos, pos_dest) that succeeds leaves the moved plan at
\* the index pos_dest denotes and the other plans in their order; and so
\* when the source is given by the UID of a queued plan.
C16_MoveToPositionDenoted ==
    Quiescent =>
        LET n == Len(plan_queue)
        IN  /\ \A pos \in ValidInts(n), pos_dest \in ValidInts(n) :
                  LET r == move_plan_(M, pos, NoneUid, pos_dest, NoneUid, NoneUid)
                  IN  ~Raised(r) =>
                          r.m.queue = MovedTo(PosDenotes(pos, n), PosDenotes(pos_dest, n))
            /\ \A uid \in QueueUIDs, pos_dest \in ValidInts(n) :
                  LET r == move_plan_(M, PosNone, uid, pos_dest, NoneUid, NoneUid)
                  IN  ~Raised(r) =>
                          r.m.queue = MovedTo(IndexOfUID(uid), PosDenotes(pos_dest, n))

\* ------------------------------------------------- what a move preserves
\* How many times text x is in list.
CountIn(list, x) == Cardinality({k \in 1..Len(list) : list[k] = x})
\* Two lists hold the same texts the same number of times.
SameBag(l1, l2) ==
    \A x \in {l1[k] : k \in 1..Len(l1)} \cup {l2[k] : k \in 1..Len(l2)} :
        CountIn(l1, x) = CountIn(l2, x)
\* The plan a move takes as its source, when there is one.
SourcePlan(c) == json_loads(plan_queue[SelDenotes(c) + 1])

\* C17: between two calls, a move(pos or uid, pos_dest or before_uid or
\* after_uid) that succeeds leaves the same plans in the queue the same
\* number of times, the length of the queue, the running plan, the history
\* and the set of UIDs of the UID dictionary as they were, and returns the
\* plan it moved, with its UID, and the length of the queue.
C17_MovePreserves ==
    Quiescent =>
        \A c \in MoveSels :
            LET r == move_plan_(M, c.pos, c.uid, c.pos_dest, c.before_uid, c.after_uid)
            IN  ~Raised(r) =>
                    /\ SameBag(r.m.queue, plan_queue)
                    /\ Len(r.m.queue) = Len(plan_queue)
                    /\ r.m.running = running_plan
                    /\ r.m.history = plan_history
                    /\ DOMAIN r.m.uid_dict = DOMAIN uid_dict
                    /\ SelDenotes(c) \in 0..(Len(plan_queue) - 1)
                    /\ r.plan = SourcePlan(c)
                    /\ r.plan.plan_uid = SourcePlan(c).plan_uid
                    /\ r.qsize = Len(plan_queue)

\* C17, its case: between two calls, with a plan running, a stopped plan in
\* the history and two plans in the queue, the move of the first plan
\* after the second succeeds and changes the order of the queue.
C17_Witness ==
    /\ Quiescent
    /\ is_plan_running_(M)
    /\ plan_history # <<>>
    /\ Len(plan_queue) = 2
    /\ LET u == json_loads(plan_queue[2]).plan_uid
           r == move_plan_(M, PosStr("front"), NoneUid, PosNone, NoneUid, u)
       IN  ~Raised(r) /\ r.m.queue = <<plan_queue[2], plan_queue[1]>>

\* ------------------------------------------------ moves of a plan to itself
\* Zero-based index of the plan the destination of a move denotes, -1 when
\* it denotes no plan of the queue.
DestDenotes(c) ==
    LET n == Len(plan_queue)
        u == IF c.before_uid # NoneUid THEN c.before_uid ELSE c.after_uid
    IN  IF ~IsNonePos(c.pos_dest)
        THEN IF IsPosition(c.pos_dest) /\ InRange(c.pos_dest, n)
             THEN PosDenotes(c.pos_dest, n) ELSE -1
        ELSE IF u \in QueueUIDs THEN IndexOfUID(u) ELSE -1
\* Zero-based index of the plan the source of a move denotes, or -1.
SourceDenotes(c) ==
    IF c.uid # NoneUid THEN SelDenotes(c)
    ELSE IF IsPosition(c.pos) /\ InRange(c.pos, Len(plan_queue)) THEN SelDenotes(c)
    ELSE -1
\* Source and destination of the move denote the same plan of the queue.
ToItself(c) ==
    /\ OneSource(c)
    /\ OneDest(c)
    /\ SourceDenotes(c) >= 0
    /\ SourceDenotes(c) = DestDenotes(c)

\* C18: a move whose source and destination denote the same plan, by
\* whatever selectors, returns without an error in the step that resolves
\* them, before any command that changes the store, and leaves the order
\* and the size of the queue, the UID dictionary and the rest of the data
\* as they were.
C18_MoveToItselfIsNoOp ==
    [][\A p \in Callers :
          (MoveStep(p) /\ ToItself(call'[p])) =>
              /\ pc'[p] = "ret"
              /\ ret'[p].err = NoExc
              /\ ret'[p].qsize = Len(plan_queue)
              /\ UNCHANGED data]_vars

\* -------------------------------------------------- front to back and back
\* C19: between two calls, with a queue that is not empty,
\* move(pos="front", pos_dest="back") followed by
\* move(pos="back", pos_dest="front") both succeed and leave the queue in
\* the order it had (and the rest of the data as it was).
C19_FrontBackRoundTrip ==
    (Quiescent /\ plan_queue # <<>>) =>
        LET there == move_plan_(M, PosStr("front"), NoneUid, PosStr("back"), NoneUid, NoneUid)
            back == move_plan_(there.m, PosStr("back"), NoneUid, PosStr("front"), NoneUid,
                               NoneUid)
        IN  /\ ~Raised(there)
            /\ ~Raised(back)
            /\ back.plan = there.plan
            /\ back.m.queue = plan_queue
            /\ back.m = M

\* C19, its case: between two calls, with three plans in the queue, the
\* move of the front plan to the back has put it behind the other two.
C19_Witness ==
    /\ Quiescent
    /\ Len(plan_queue) = 3
    /\ LET there == move_plan_(M, PosStr("front"), NoneUid, PosStr("back"), NoneUid, NoneUid)
       IN  /\ ~Raised(there)
           /\ there.m.queue = <<plan_queue[2], plan_queue[3], plan_queue[1]>>

\* ------------------------------------------------------- clear_plan_queue
\* A step of clear_plan_queue: the first, or one after a pop.
ClearStep(p) ==
    /\ pc[p] \in {"locked", "clear_pop_finish"}
    /\ call'[p].op = "clear_plan_queue"
    /\ <<pc[p], call[p], loc[p], ret[p]>> # <<pc'[p], call'[p], loc'[p], ret'[p]>>

\* C20: clear_plan_queue returns without an error with the queue empty and
\* no UID in the UID dictionary but the one of the running plan, so none
\* of a plan that was in the queue; none of its steps changes the running
\* plan, the history or the entry of the running plan in the UID
\* dictionary, or puts a UID into the dictionary.
C20_ClearEmptiesQueueOnly ==
    [][\A p \in Callers :
          ClearStep(p) =>
              /\ running_plan' = running_plan
              /\ plan_history' = plan_history
              /\ DOMAIN uid_dict' \subseteq DOMAIN uid_dict
              /\ \A u \in RunningUIDs :
                    u \in DOMAIN uid_dict' /\ uid_dict'[u] = uid_dict[u]
              /\ pc'[p] = "ret" =>
                    /\ ret'[p].err = NoExc
                    /\ plan_queue' = <<>>
                    /\ DOMAIN uid_dict' = RunningUIDs]_vars

\* C20, its case: with a plan running and a stopped plan in the history,
\* clear_plan_queue has popped a plan and there is another to pop.
C20_Witness ==
    \E p \in Callers :
        /\ pc[p] = "clear_pop_finish"
        /\ call[p].op = "clear_plan_queue"
        /\ plan_queue # <<>>
        /\ is_plan_running_(M)
        /\ plan_history # <<>>

\* ------------------------------------------------ set_next_plan_as_running
\* The first step of set_next_plan_as_running, and the step that sets the
\* running plan.
NextStep(p) == pc[p] = "locked" /\ call'[p].op = "set_next_plan_as_running"
NextSets(p) == pc[p] = "next_set_running" /\ pc'[p] # pc[p]
\* The method of p returns {} in this step and changes no data.
ReturnsEmpty(p) ==
    /\ pc'[p] = "ret"
    /\ ret'[p].err = NoExc
    /\ ret'[p].plan = EmptyDict
    /\ UNCHANGED data

\* C21: set_next_plan_as_running returns {} and changes nothing when a plan
\* is running (the running plan is never overwritten) and when no plan is
\* running and the queue is empty (no plan is running afterwards);
\* otherwise it takes exactly the first plan out of the queue, the others
\* keeping their order, makes it the running plan and returns it, and the
\* UID of the plan stays in the UID dictionary.
C21_NextTakesFront ==
    [][\A p \in Callers :
          /\ (NextStep(p) /\ is_plan_running_(M)) => ReturnsEmpty(p)
          /\ (NextStep(p) /\ ~is_plan_running_(M) /\ plan_queue = <<>>) =>
                ReturnsEmpty(p) /\ ~is_plan_running_(M)'
          /\ (NextStep(p) /\ ~is_plan_running_(M) /\ plan_queue # <<>>) =>
                /\ pc'[p] = "next_set_running"
                /\ plan_queue' = Tail(plan_queue)
                /\ loc'[p].plan = json_loads(Head(plan_queue))
                /\ UNCHANGED <<running_plan, plan_history, uid_dict>>
          /\ NextSets(p) =>
                /\ pc'[p] = "ret"
                /\ ret'[p].err = NoExc
                /\ ret'[p].plan = loc[p].plan
                /\ ~is_plan_running_(M)
                /\ get_running_plan_info_(M)' = loc[p].plan
                /\ loc[p].plan.plan_uid \in DOMAIN uid_dict
                /\ UNCHANGED <<plan_queue, plan_history, uid_dict>>]_vars

\* C21, its case: set_next_plan_as_running has returned the plan that is
\* running now, two plans are left in the queue and the history has an entry.
C21_Witness ==
    \E p \in Callers :
        /\ pc[p] = "ret"
        /\ call[p].op = "set_next_plan_as_running"
        /\ Truthy(ret[p].plan)
        /\ get_running_plan_info_(M) = ret[p].plan
        /\ Len(plan_queue) = 2
        /\ plan_history # <<>>

\* ------------------------------------------ set_processed_plan_as_completed
\* The first step of set_processed_plan_as_completed, and its last.
CompleteStep(p) == pc[p] = "locked" /\ call'[p].op = "set_processed_plan_as_completed"
CompleteEnds(p) == pc[p] = "completed_history" /\ pc'[p] # pc[p]
\* The running plan with the exit status of the call.
Processed(c) == [get_running_plan_info_(M) EXCEPT !.exit_status = c.exit_status]

StopStep(p) == pc[p] = "locked" /\ call'[p].op = "set_processed_plan_as_stopped"
StopPushes(p) == pc[p] = "stopped_push" /\ pc'[p] # pc[p]
StopEnds(p) == pc[p] = "stopped_history" /\ pc'[p] # pc[p]

Unoccupied == running_plan.nil \/ json_loads(running_plan) = EmptyDict

\* C24: with no plan running, set_processed_plan_as_completed and
\* set_processed_plan_as_stopped return {} and leave the queue, the running
\* plan, the history and the UID dictionary as they were.
C24_NothingRunningNothingDone ==
    [][\A p \in Callers :
          ((CompleteStep(p) \/ StopStep(p)) /\ Unoccupied) => ReturnsEmpty(p)]_vars

\* C24, its case: set_processed_plan_as_stopped has returned {} with no plan
\* running, plans in the queue and an entry in the history.
C24_Witness ==
    \E p \in Callers :
        /\ pc[p] = "ret"
        /\ call[p].op = "set_processed_plan_as_stopped"
        /\ ret[p].err = NoExc
        /\ ret[p].plan = EmptyDict
        /\ Unoccupied
        /\ plan_queue # <<>>
        /\ plan_history # <<>>

\* ------------------------------------------------------------ the history
\* l1 is the beginning of l2.
IsPrefix(l1, l2) == Len(l1) <= Len(l2) /\ SubSeq(l2, 1, Len(l1)) = l1
\* A step of clear_plan_history.
ClearHistoryStep ==
    \E p \in Callers :
        pc[p] \in {"locked", "history_pop"} /\ call'[p].op = "clear_plan_history"
\* The methods that work on the queue and the running plan only.
QueueOps ==
    {"add_plan_to_queue", "pop_plan_from_queue", "move_plan", "clear_plan_queue",
     "set_next_plan_as_running"}

\* C25: the history only grows at its end: every step but those of
\* clear_plan_history leaves the history it finds as the beginning of the
\* history it leaves; the steps of add, pop, move, clear_plan_queue and
\* set_next_plan_as_running leave it unchanged; and a call of
\* set_processed_plan_as_completed or _stopped with a plan running appends
\* one entry, in its last step, and changes nothing of it before.
C25_HistoryAppendOnly ==
    [][/\ ~ClearHistoryStep => IsPrefix(plan_history, plan_history')
       /\ StepOf(QueueOps) => plan_history' = plan_history
       /\ \A p \in Callers :
             /\ (CompleteStep(p) \/ StopStep(p) \/ StopPushes(p)) =>
                   plan_history' = plan_history
             /\ (CompleteEnds(p) \/ StopEnds(p)) =>
                   /\ Len(plan_history') = Len(plan_history) + 1
                   /\ plan_history'[Len(plan_history')] = json_dumps(ret'[p].plan)]_vars

\* C25, its case: the history has the record of a plan that was stopped and,
\* after it, the record of another plan, completed in the call that has
\* just returned.
C25_Witness ==
    \E p \in Callers :
        /\ pc[p] = "ret"
        /\ call[p].op = "set_processed_plan_as_completed"
        /\ Len(plan_history) = 2
        /\ plan_history[2] = json_dumps(ret[p].plan)
        /\ json_loads(plan_history[1]).plan_uid # ret[p].plan.plan_uid
        /\ json_loads(plan_history[1]).plan_uid \in QueueUIDs

\* ------------------------------------------------------------------ start()
\* The step of start() that runs _queue_clean, and the step in which start()
\* returns from `async with` without an exception.
StartCleans(p) == pc[p] = "start_pool" /\ pc'[p] # pc[p]
StartSucceeds(p) ==
    /\ pc[p] \in {"start_init_queue", "start_init_running"}
    /\ pc'[p] = "ret"
    /\ ret'[p].err = NoExc
\* The texts of the list whose plan has a UID.
WithUID(list) == SelectSeq(list, LAMBDA text : HasKey_plan_uid(json_loads(text)))
\* The UIDs of the plans of the queue and of the running plan, one after
\* the other.
HeldUIDs ==
    [k \in 1..Len(plan_queue) |-> json_loads(plan_queue[k]).plan_uid]
    \o (IF is_plan_running_(M) THEN <<get_running_plan_info_(M).plan_uid>> ELSE <<>>)
\* No element is twice in the sequence.
NoRepeat(seq) == \A i, j \in 1..Len(seq) : seq[i] = seq[j] => i = j

\* C26: whatever Redis held before, _queue_clean keeps the plans with a UID
\* in their order, and a start() that returns without an exception leaves
\* a queue with no plan without UID, no running plan without UID, a UID
\* dictionary with exactly the UIDs of the queue and of the running plan,
\* and no UID twice in queue and running plan (with a UID twice start()
\* raises).
C26_StartReconciles ==
    [][\A p \in Callers :
          /\ StartCleans(p) => WithUID(plan_queue') = WithUID(plan_queue)
          /\ StartSucceeds(p) =>
                /\ plan_queue' = WithUID(plan_queue')
                /\ is_plan_running_(M)' => HasKey_plan_uid(get_running_plan_info_(M))'
                /\ DOMAIN uid_dict' = QueueUIDs' \cup RunningUIDs'
                /\ NoRepeat(HeldUIDs)']_vars

\* A step of start(): the call, and the return of a call that found the pool.
StartStep(p) == pc[p] = "idle" /\ call'[p].op = "start"
StartReturns(p) == pc[p] = "started" /\ pc'[p] # pc[p]

\* C27: on a manager that a start() has initialized, whatever methods ran
\* since, start() goes to its return at once, with no command to Redis, and
\* leaves the lock (the object, its holder and its waiters), the pool, the
\* UID dictionary, the queue, the running plan and the history unchanged.
C27_StartAgainDoesNothing ==
    [][\A p \in Callers :
          /\ StartStep(p) => (pc'[p] = "started" /\ UNCHANGED <<data, locks, r_pool>>)
          /\ StartReturns(p) => (pc'[p] = "idle" /\ UNCHANGED <<data, locks, r_pool>>)]_vars

\* C27, its case: start() has been called again, and is about to return,
\* with a plan running, plans in the queue and entries in the history.
C27_Witness ==
    \E p \in Callers :
        /\ pc[p] = "started"
        /\ call[p].op = "start"
        /\ is_plan_running_(M)
        /\ Len(plan_queue) = 2
        /\ Len(plan_history) = 2
        /\ DOMAIN uid_dict = QueueUIDs \cup RunningUIDs

\* ------------------------------------------------ the keyword arguments
\* The method of p raises ValueError in this step and changes no data.
RejectsArgs(p) ==
    /\ pc'[p] = "ret"
    /\ ret'[p].err.exc = "ValueError"
    /\ UNCHANGED data
\* Both pos and uid are given.
BothSource(c) == ~IsNonePos(c.pos) /\ c.uid # NoneUid
\* The destination arguments of add and move are ambiguous: a position
\* with a UID, or before_uid with after_uid.
AmbiguousDest(pos, c) ==
    \/ ~IsNonePos(pos) /\ (c.before_uid # NoneUid \/ c.after_uid # NoneUid)
    \/ c.before_uid # NoneUid /\ c.after_uid # NoneUid
\* move_plan is given no source, or no destination.
NoSource(c) == IsNonePos(c.pos) /\ c.uid = NoneUid
NoDest(c) == IsNonePos(c.pos_dest) /\ c.before_uid = NoneUid /\ c.after_uid = NoneUid

InvalidArgument(p) ==
    /\ pc'[p] = "ret"
    /\ ret'[p].err.exc \in {"ValueError", "TypeError"}
    /\ UNCHANGED data
\* Steps of get, pop and add with a position string other than "front" and
\* "back" (add with a plan it accepts) raise such an exception.
BadPosGetPopAdd(p) ==
    LET c == call'[p]
    IN  /\ ((GetStep(p) \/ PopStep(p)) /\ c.pos = PosOther) => InvalidArgument(p)
        /\ (AddStep(p) /\ c.pos = PosOther /\ Acceptable(c.plan)) => InvalidArgument(p)
\* ... and so do steps of move with such a string as pos or as pos_dest.
BadPosMove(p) ==
    LET c == call'[p]
    IN  (MoveStep(p) /\ (c.pos = PosOther \/ c.pos_dest = PosOther)) => InvalidArgument(p)

\* C29: get, pop, add and move (pos and pos_dest) given a position string
\* other than "front" and "back" raise an exception for a wrong argument,
\* which is not the IndexError of a plan that is not found, and leave the
\* queue, the running plan, the history and the UID dictionary as they were.
C29_BadPositionStringIsInvalidArgument ==
    [][\A p \in Callers : BadPosGetPopAdd(p) /\ BadPosMove(p)]_vars

\* ------------------------------------------------------------ the lock
\* The Lock objects the caller holds, and the ones it waits for.
HeldBy(p) == {l \in LockIds : lock_holder[l] = p}
WaitedBy(p) == {l \in LockIds : \E k \in 1..Len(lock_waiters[l]) : lock_waiters[l][k] = p}
\* The caller's method ends, by return or by exception.
Exits(p) == pc[p] = "ret" /\ pc'[p] # "ret"
\* Lock l passes from p to the first caller in line, or is free.
PassedOn(p, l) ==
    IF lock_waiters[l] = <<>>
    THEN lock_holder'[l] = NoCaller /\ lock_waiters'[l] = <<>>
    ELSE /\ lock_holder'[l] = Head(lock_waiters[l])
         /\ lock_waiters'[l] = Tail(lock_waiters[l])
         /\ pc'[Head(lock_waiters[l])] = "locked"
\* A caller that holds a lock is in the body of its method, holds no other
\* lock and waits for none; a caller whose method has ended with a result
\* or an exception still holds its lock, so that it is the one to release it.
LockHeldInBodyOnly ==
    \A p \in Callers :
        /\ HeldBy(p) # {} => (InBody(p) /\ Cardinality(HeldBy(p)) = 1 /\ WaitedBy(p) = {})
        /\ pc[p] = "ret" => HeldBy(p) # {}
        /\ WaitedBy(p) # {} => pc[p] = "waiting"

\* C30: a caller that holds the lock runs no step that takes or waits for
\* a lock; the lock is held only in the body of a public method, never by
\* a caller whose method has ended; and every method, at its end by return
\* or by exception, gives the lock to the first caller in line or leaves it
\* free, its caller holding no lock afterwards.
C30_LockNotReacquiredAlwaysReleased ==
    /\ []LockHeldInBodyOnly
    /\ [][\A p \in Callers :
             /\ HeldBy(p) # {} => (HeldBy(p)' \subseteq HeldBy(p) /\ WaitedBy(p)' = {})
             /\ Exits(p) => /\ pc'[p] = "idle"
                            /\ HeldBy(p)' = {}
                            /\ \A l \in HeldBy(p) : PassedOn(p, l)]_vars

\* C30, its case: a method has raised and its caller is about to leave
\* `async with` while the other caller waits for the same lock.
C30_Witness ==
    \E p \in Callers, l \in LockIds :
        /\ pc[p] = "ret"
        /\ ret[p].err # NoExc
        /\ lock_holder[l] = p
        /\ lock_waiters[l] # <<>>

\* ------------------------------------------------------------ progress
\* Caller p is ahead of caller q in the line for lock l.
Ahead(l, p, q) ==
    \E i, j \in 1..Len(lock_waiters[l]) :
        i < j /\ lock_waiters[l][i] = p /\ lock_waiters[l][j] = q
\* The lock goes to the callers in the order they asked for it: nobody
\* gets lock l while somebody is ahead of it in the line or while the line
\* has others in it and it is not in the line, and nobody overtakes in it.
ServedInOrder ==
    \A l \in LockIds, p, q \in Callers :
        /\ (Ahead(l, p, q) /\ lock_holder'[l] # lock_holder[l]) => lock_holder'[l] # q
        /\ Ahead(l, p, q) => ~Ahead(l, q, p)'
        /\ (WaitedBy(p) = {l} /\ WaitedBy(q) = {} /\ WaitedBy(q)' = {l}) => Ahead(l, p, q)'
\* Caller p is in clear_plan_queue.
Clearing(p) == InBody(p) /\ call[p].op = "clear_plan_queue"

\* C31: with every Redis command returning and the event loop running every
\* coroutine that is ready, a caller that waits for the lock gets it, a
\* caller in a public method returns from it and releases the lock, the
\* waiting callers get the lock in the order in which they asked for it,
\* and clear_plan_queue returns without an exception with the queue empty.
C31_EveryCallReturns ==
    /\ [][ServedInOrder]_vars
    /\ \A p \in Callers :
          /\ (pc[p] = "waiting") ~> (pc[p] = "locked")
          /\ (pc[p] # "idle") ~> (pc[p] = "idle")
          /\ Clearing(p) ~> (/\ pc[p] = "ret"
                             /\ Clearing(p)
                             /\ ret[p].err = NoExc
                             /\ plan_queue = <<>>)

\* C31, its case: one caller is clearing a queue of two plans while the
\* other two callers wait in line for the lock.
C31_Witness ==
    \E p \in Callers, l \in LockIds :
        /\ Clearing(p)
        /\ pc[p] = "clear_pop_finish"
        /\ Len(plan_queue) >= 1
        /\ lock_holder[l] = p
        /\ Len(lock_waiters[l]) = 2

\* ------------------------------------------------------ Redis failures
\* The step in which a Redis command raises in move_plan after the source
\* has been taken out of the list.
ReinsertFails(p) ==
    /\ pc[p] = "move_reinsert"
    /\ pc'[p] = "ret"
    /\ ret'[p].err.exc = "RedisError"
\* The list without the plan with UID u.
Without(list, u) == SelectSeq(list, LAMBDA text : json_loads(text).plan_uid # u)

\* C32: when a Redis command raises in move_plan after _pop_plan_from_queue
\* has taken the source out, move_plan raises and the source is neither in
\* the queue nor in the UID dictionary, while the other plans keep their
\* order and the UID dictionary still has the UIDs of the queue and of the
\* running plan; nothing puts the source back before the lock is released.
C32_MoveLosesSourceOnFailure ==
    [][\A p \in Callers :
          LET u == loc[p].plan.plan_uid
          IN  /\ ReinsertFails(p) =>
                    /\ u \notin QueueUIDs'
                    /\ u \notin DOMAIN uid_dict'
                    /\ u \notin RunningUIDs'
                    /\ plan_queue' = Without(plan_queue, u)
                    /\ DOMAIN uid_dict' = QueueUIDs' \cup RunningUIDs'
                    /\ UNCHANGED <<running_plan, plan_history>>
              /\ (pc[p] = "ret" /\ ret[p].err.exc = "RedisError" /\ pc'[p] # "ret")
                    => (UNCHANGED data /\ Quiescent')]_vars

\* C32, its case: move_plan has raised for a Redis failure with a plan
\* running and one plan left in the queue.
C32_Witness ==
    \E p \in Callers :
        /\ pc[p] = "ret"
        /\ call[p].op = "move_plan"
        /\ ret[p].err.exc = "RedisError"
        /\ is_plan_running_(M)
        /\ Len(plan_queue) = 1
        /\ Cardinality(DOMAIN uid_dict) = 2

\* ------------------------------------------- the records of _uid_dict
\* The places of the queue with the JSON text of this plan.
PlacesOf(plan) == {k \in 1..Len(plan_queue) : plan_queue[k] = json_dumps(plan)}
\* The plan _uid_dict has for each UID is the plan Redis has for it, in the
\* queue or as the running plan, and json.dumps of it is the text of
\* exactly one element of the queue, or of the running plan.
RecordsAgree ==
    \A u \in DOMAIN uid_dict :
        /\ \A k \in 1..Len(plan_queue) :
              json_loads(plan_queue[k]).plan_uid = u => json_loads(plan_queue[k]) = uid_dict[u]
        /\ u \in RunningUIDs => get_running_plan_info_(M) = uid_dict[u]
        /\ u \in QueueUIDs => Cardinality(PlacesOf(uid_dict[u])) = 1
\* pop with a UID or an integer does not end with the RuntimeError of
\* _remove_plan.
PopRemovesOne(p) ==
    (PopStep(p) /\ (call'[p].uid # NoneUid \/ IsInt(call'[p].pos)))
        => ~(pc'[p] = "ret" /\ ret'[p].err.exc = "RuntimeError")
\* add before or after the UID of a plan in the queue finds that plan and
\* puts the new plan in the list.
AddFindsPivot(p) ==
    LET c == call'[p]
        u == IF c.before_uid # NoneUid THEN c.before_uid ELSE c.after_uid
    IN  (/\ AddStep(p)
         /\ IsNonePos(c.pos)
         /\ (c.before_uid = NoneUid) # (c.after_uid = NoneUid)
         /\ u \in QueueUIDs /\ u \in DOMAIN uid_dict
         /\ Acceptable(c.plan))
        => (pc'[p] = "add_finish" /\ Len(plan_queue') = Len(plan_queue) + 1)

AddEnds(p) == pc[p] = "add_finish" /\ call[p].op = "add_plan_to_queue" /\ pc'[p] # pc[p]

\* C34: in add_plan_to_queue, for a plan given with a UID and for a plan
\* that gets its UID from add, a step that raises leaves the list and
\* _uid_dict as they were, and once the Redis command has put the plan in
\* the list _uid_dict_add does not raise and enters its UID; so whenever
\* no public method holds the lock every UID of the queue is in _uid_dict.
C34_AddListAndIndexTogether ==
    /\ [](Quiescent => QueueUIDs \subseteq DOMAIN uid_dict)
    /\ [][\A p \in Callers :
             /\ (AddStep(p) /\ pc'[p] = "ret") => (ret'[p].err # NoExc /\ UNCHANGED data)
             /\ (AddStep(p) /\ pc'[p] = "add_finish") =>
                    /\ Len(plan_queue') = Len(plan_queue) + 1
                    /\ loc'[p].plan.plan_uid \in QueueUIDs'
                    /\ UNCHANGED uid_dict
             /\ AddEnds(p) =>
                    /\ ret'[p].err = NoExc
                    /\ loc[p].plan.plan_uid \in DOMAIN uid_dict'
                    /\ uid_dict'[loc[p].plan.plan_uid] = loc[p].plan
                    /\ UNCHANGED plan_queue]_vars

\* C34, its case: add has returned a plan it gave a UID to, without an
\* exception, the plan being one of at least two in the queue.
C34_Witness ==
    \E p \in Callers :
        /\ pc[p] = "ret"
        /\ call[p].op = "add_plan_to_queue"
        /\ ~HasKey_plan_uid(call[p].plan)
        /\ ret[p].err = NoExc
        /\ ret[p].plan.plan_uid \in QueueUIDs \cap DOMAIN uid_dict
        /\ Len(plan_queue) >= 2

\* ------------------------------------------------- the order of running
\* The UIDs of the plans of a list of JSON texts, in the order of the list.
UIDsOf(list) == [k \in 1..Len(list) |-> json_loads(list[k]).plan_uid]
\* The UID of the running plan, as a sequence of one or none.
RunningUID == IF is_plan_running_(M) THEN <<get_running_plan_info_(M).plan_uid>> ELSE <<>>
\* The plans in the order in which they have run and are to run.
Dispatch == UIDsOf(plan_history) \o RunningUID \o UIDsOf(plan_queue)

\* C35: with plans added at the back only and none moved, popped or
\* stopped, the plans start to run and get to the history in the order in
\* which they were added: whenever no public method holds the lock, the
\* history, then the running plan, then the queue are the plans added,
\* in the order of their addition, every history entry being "completed";
\* and set_next_plan_as_running starts the plan added first among those
\* that have not run.
C35_RunInOrderOfAddition ==
    /\ [](Quiescent =>
            /\ Dispatch = SubSeq(OrderUIDs, 1, Len(Dispatch))
            /\ \A k \in 1..Len(plan_history) :
                  json_loads(plan_history[k]).exit_status = "completed")
    /\ [][\A p \in Callers :
             NextSets(p) =>
                /\ RunningUID' = <<OrderUIDs[Len(plan_history) + 1]>>
                /\ ret'[p].plan.plan_uid = OrderUIDs[Len(plan_history) + 1]]_vars

\* C35, its case: "a" and "b" have run and are in the history in this
\* order and "c", added last, is running.
C35_Witness ==
    /\ Quiescent
    /\ UIDsOf(plan_history) = <<"a", "b">>
    /\ RunningUID = <<"c">>
    /\ plan_queue = <<>>

\* ------------------------------------------- a stopped plan runs again
\* The history has an entry for this plan record before its entry k.
EntryBefore(plan, k) == \E i \in 1..(k - 1) : json_loads(plan_history[i]) = plan
\* The plan at the front of the queue.
Front == json_loads(plan_queue[1])

C37_ExecutionQueueAtMostOne == Len(execution_queue) <= 1

\* The queue holds a continued plan the main thread has not taken yet, and
\* the handler of a second continue command has passed its check of the
\* Run Engine and stands before its check of the environment.
C37_Witness ==
    /\ Len(execution_queue) = 1
    /\ execution_queue[1].exec_option \in available_options
    /\ comm.pc = "continue_plan"
    /\ main.pc = "poll"

\* ------------------------------------------- what the handlers accept
\* The communication thread takes a step from one place to another.
CommStep(from, to) == comm.pc = from /\ comm'.pc = to
\* A handler that was at `from` answers `status`; the step is one of the
\* communication thread, the other threads stand still.
CommAnswers(from, status) ==
    /\ CommStep(from, "idle")
    /\ reply'.status = status
    /\ UNCHANGED <<main, tasks>>
\* The places of the run-plan handler.
RunPlanPlaces == {"run_plan_RE", "run_plan_info", "start_new_plan", "start_new_plan_put"}
\* The worker is reset: no plan is stored and the completed flag is down.
WorkerReset == ~IsSet(running_plan_info) /\ ~running_plan_completed

\* The run-plan handler passes its last check, after which it stores the
\* plan and puts it into the queue: the command is accepted.
RunPlanAccepted == CommStep("start_new_plan", "start_new_plan_put")
\* The run-plan handler answers "rejected".
RunPlanRejected ==
    \E from \in {"idle"} \cup RunPlanPlaces :
        CommAnswers(from, "rejected") /\ reply'.cmd = "run_plan"
\* The continue-plan handler passes the check of _continue_plan.
ContinueAccepted == CommStep("continue_plan", "continue_plan_put")
\* _start_task takes a foreground task.
ForegroundAccepted ==
    /\ CommStep("idle", "start_task_thread") \/ CommStep("idle", "start_task_put")
    /\ ~comm'.run_in_background

\* What the run-plan handler has when it accepts, the completed flag left
\* aside.
AcceptedWhenFree ==
    [][RunPlanAccepted
          => /\ execution_queue = <<>>
             /\ RE_state # "running"
             /\ ~IsSet(running_plan_info)
             /\ env_state = "idle"]_vars
\* What a rejected run-plan command leaves as it was.
RejectedLeaves ==
    [][RunPlanRejected
          => UNCHANGED <<env_state, running_plan_info, execution_queue>>]_vars
\* Continued plans and foreground tasks are taken in state IDLE only.
OthersWhenIdle ==
    [][(ContinueAccepted \/ ForegroundAccepted) => env_state = "idle"]_vars

\* C38: a run-plan command is accepted only when the execution queue is
\* empty, the Run Engine is not running, the worker is reset (no plan info
\* is stored and the completed flag is false) and the environment state is
\* IDLE; a rejected run-plan command leaves the environment state, the
\* stored plan info and the execution queue unchanged; a continued plan and
\* a foreground task are accepted only in state IDLE.
C38_RunPlanAcceptedOnlyWhenReady ==
    [][/\ RunPlanAccepted
             => /\ execution_queue = <<>>
                /\ RE_state # "running"
                /\ WorkerReset
                /\ env_state = "idle"
       /\ RunPlanRejected
             => UNCHANGED <<env_state, running_plan_info, execution_queue>>
       /\ (ContinueAccepted \/ ForegroundAccepted) => env_state = "idle"]_vars

\* ------------------------------------------------ how an execution ends
\* The main thread has taken a plan from the queue and has not ended it.
Executing == main.pc \in {"plan", "running", "returned", "raised", "exit"}
\* The main thread writes the report of an execution.
ReportStep == main.pc \in {"returned", "raised"} /\ main'.pc = "exit"
\* The main thread ends an execution.
ExitStep == main.pc = "exit" /\ main'.pc = "poll"
\* The reset handler accepts.
ResetAccepted == CommStep("idle", "reset_worker_report")
PlanStates == {"completed", "stopped", "aborted", "halted", "failed", "paused"}

\* Every execution comes to its end.
ExecutionEnds == Executing ~> (main.pc = "poll")
\* The report is written before the end; the flag goes up unless the plan
\* was paused.
ReportWritten ==
    [][ReportStep
          => /\ re_report' # NoneValue
             /\ re_report'[1].action = "plan_exit"
             /\ re_report'[1].plan_state \in PlanStates
             /\ IF re_report'[1].plan_state = "paused"
                THEN UNCHANGED running_plan_completed
                ELSE running_plan_completed']_vars
\* An execution ends in state IDLE.
EndsIdle == [][ExitStep => env_state' = "idle"]_vars
\* When the report of an execution is written the worker is not reset: the
\* plan info or the completed flag stands against a new plan.
ReportedNotReset == [][ReportStep => ~WorkerReset']_vars
\* A new plan is not accepted while the plan before it is paused.
NotAcceptedWhilePaused == [][RunPlanAccepted => RE_state # "paused"]_vars
\* Only the reset handler resets the worker, and only with the Run Engine
\* idle.
OnlyReset ==
    [][/\ (~WorkerReset /\ WorkerReset') => ResetAccepted
       /\ ResetAccepted => RE_state = "idle"]_vars

\* C39: every plan execution the main thread takes from the queue, new or
\* continued, comes to its end; before the end a plan_exit report is
\* written, with the plan state completed, stopped, aborted, halted, failed
\* or paused, and the completed flag goes up unless the plan was paused; the
\* end puts the environment state back to IDLE; from the report on the
\* worker is not reset, so that no new plan is accepted, until the reset
\* handler resets it, which it does only with the Run Engine idle.
C39_ExecutionEndsAndWaitsForReset ==
    /\ ExecutionEnds
    /\ [][/\ ReportStep
                => /\ re_report' # NoneValue
                   /\ re_report'[1].action = "plan_exit"
                   /\ re_report'[1].plan_state \in PlanStates
                   /\ IF re_report'[1].plan_state = "paused"
                      THEN UNCHANGED running_plan_completed
                      ELSE running_plan_completed'
                   /\ ~WorkerReset'
          /\ ExitStep => env_state' = "idle"
          /\ (~WorkerReset /\ WorkerReset') => ResetAccepted
          /\ ResetAccepted => RE_state = "idle"]_vars

\* ------------------------------------------ the background task counter
\* The background tasks started and not finished: the threads that run one
\* and have not reached the update of the counter, and the one _start_task
\* has counted and is about to start.
BackgroundRunning ==
    Cardinality({t \in TaskIds : tasks[t].pc = "running" /\ tasks[t].run_in_background})
    + (IF comm.pc = "start_task_thread" /\ comm.run_in_background THEN 1 ELSE 0)
\* A thread has read the counter and not yet written it.
Updating == comm.pc = "start_task_add" \/ \E t \in TaskIds : tasks[t].pc = "max"
\* The counter is never negative.
CounterNotNegative == background_tasks_num >= 0

\* C40: the background task counter is never negative, and whenever no
\* thread is between its read and its write of the counter, the counter is
\* the number of background tasks started and not finished.
C40_CounterIsRunningBackgroundTasks ==
    /\ background_tasks_num >= 0
    /\ ~Updating => background_tasks_num = BackgroundRunning

====
